-------------------------- MODULE OrderedMapProofs --------------------------
(***************************************************************************)
(* What holds of the Map for every set of keys and values, every number of *)
(* cursors, every floor and however many entries were ever inserted.       *)
(* After it, what holds of the structures that are built on the map.       *)
(***************************************************************************)
EXTENDS OrderedMap, FiniteSetTheorems, SequenceTheorems, TLAPS

Entry == [key : Keys, value : Values]
Slot == [id : Nat, entry : Entry \cup {None}]

LiveSlots(s) == {i \in DOMAIN s : s[i].entry # None}

-----------------------------------------------------------------------------
(* Finite sets of numbers *)

(* The number of members of S up to i.                                     *)
Rank(S, i) == Cardinality({j \in S : j <= i})

(* Counting the members of a finite set of numbers numbers them.           *)
LEMMA Ranks ==
    ASSUME NEW S \in SUBSET Nat, IsFiniteSet(S)
    PROVE  /\ Cardinality(S) \in Nat
           /\ \A i \in S : Rank(S, i) \in 1 .. Cardinality(S)
           /\ \A i, j \in S : i < j <=> Rank(S, i) < Rank(S, j)
           /\ \A n \in 1 .. Cardinality(S) : \E i \in S : Rank(S, i) = n
<1> DEFINE upto(i) == {j \in S : j <= i}
           f == [i \in S |-> Rank(S, i)]
           N == Cardinality(S)
<1>0. \A i \in S : i \in Nat
  OBVIOUS
<1>1. N \in Nat
  BY FS_CardinalityType
<1>2. \A i \in S : /\ IsFiniteSet(upto(i)) /\ Rank(S, i) = Cardinality(upto(i))
                   /\ Rank(S, i) \in Nat /\ Rank(S, i) <= N
  <2> TAKE i \in S
  <2>1. upto(i) \in SUBSET S
    OBVIOUS
  <2>2. IsFiniteSet(upto(i)) /\ Cardinality(upto(i)) <= N
    BY <2>1, FS_Subset
  <2>. QED
    BY <2>2, FS_CardinalityType DEF Rank
<1>3. \A i \in S : Rank(S, i) \in 1 .. N
  <2> TAKE i \in S
  <2>1. i \in upto(i)
    OBVIOUS
  <2>2. Cardinality(upto(i)) # 0
    BY <1>2, <2>1, FS_EmptySet
  <2>. QED
    BY <1>1, <1>2, <2>2
<1>4. \A i, j \in S : i < j => Rank(S, i) < Rank(S, j)
  <2> TAKE i, j \in S
  <2> HAVE i < j
  <2>1. i \in Nat /\ j \in Nat
    BY <1>0
  <2>2. ASSUME NEW x \in upto(i) PROVE x \in upto(j)
    <3>1. x \in Nat /\ x <= i
      BY <1>0
    <3>. QED
      BY <2>1, <3>1
  <2>3. j \in upto(j) /\ j \notin upto(i)
    BY <2>1
  <2>4. /\ Cardinality(upto(i)) <= Cardinality(upto(j))
        /\ Cardinality(upto(i)) # Cardinality(upto(j))
    BY <1>2, <2>2, <2>3, FS_Subset
  <2>. QED
    BY <1>2, <2>4
<1>5. \A i, j \in S : Rank(S, i) < Rank(S, j) => i < j
  <2> TAKE i, j \in S
  <2> HAVE Rank(S, i) < Rank(S, j)
  <2>1. i \in Nat /\ j \in Nat /\ Rank(S, i) \in Nat /\ Rank(S, j) \in Nat
    BY <1>0, <1>2
  <2>2. ~(j < i) /\ i # j
    BY <1>4, <2>1
  <2>. QED
    BY <2>1, <2>2
<1>6. f \in Injection(S, 1 .. N)
  <2>1. f \in [S -> 1 .. N]
    BY <1>3
  <2>2. \A i, j \in S : f[i] = f[j] => i = j
    <3> TAKE i, j \in S
    <3>1. i < j \/ j < i \/ i = j
      BY <1>0
    <3>2. Rank(S, i) \in Nat /\ Rank(S, j) \in Nat
      BY <1>2
    <3>. QED
      BY <1>4, <3>1, <3>2
  <2>. QED
    BY <2>1, <2>2 DEF Injection, IsInjective
<1>7. f \in Surjection(S, 1 .. N)
  <2>1. IsFiniteSet(1 .. N) /\ Cardinality(1 .. N) = N
    BY <1>1, FS_Interval
  <2>. QED
    BY <1>6, <2>1, FS_Injection
<1>8. \A n \in 1 .. N : \E i \in S : Rank(S, i) = n
  BY <1>7 DEF Surjection
<1>. QED
  BY <1>1, <1>3, <1>4, <1>5, <1>8

LEMMA LeastOf ==
    ASSUME NEW S \in SUBSET Nat, IsFiniteSet(S), S # {}
    PROVE  \E i \in S : \A j \in S : i <= j
<1>1. Cardinality(S) \in Nat \ {0}
  BY Ranks, FS_EmptySet
<1>2. PICK i \in S : Rank(S, i) = 1
  BY <1>1, Ranks
<1>3. ASSUME NEW j \in S PROVE i <= j
  <2>1. Rank(S, j) \in 1 .. Cardinality(S) /\ i \in Nat /\ j \in Nat
    BY Ranks
  <2>2. j < i => Rank(S, j) < Rank(S, i)
    BY Ranks
  <2>. QED
    BY <1>1, <1>2, <2>1, <2>2
<1>. QED
  BY <1>3

(* A set of positions without a gap is counted by its last.                *)
LEMMA GaplessSet ==
    ASSUME NEW n \in Nat, NEW S \in SUBSET (1 .. n),
           \A i \in S : \A j \in 1 .. i : j \in S
    PROVE  Cardinality(S) \in Nat /\ S = 1 .. Cardinality(S)
<1> DEFINE c == Cardinality(S)
<1>1. IsFiniteSet(S) /\ c \in Nat
  <2>1. IsFiniteSet(1 .. n)
    BY FS_Interval
  <2>. QED
    BY <2>1, FS_Subset, FS_CardinalityType
<1>2. ASSUME NEW i \in S PROVE i \in 1 .. c
  <2>1. i \in Nat /\ i >= 1
    OBVIOUS
  <2>2. Cardinality(1 .. i) = i
    BY <2>1, FS_Interval
  <2>3. 1 .. i \in SUBSET S
    OBVIOUS
  <2>4. Cardinality(1 .. i) <= c
    BY <1>1, <2>3, FS_Subset
  <2>. QED
    BY <1>1, <2>1, <2>2, <2>4
<1>3. IsFiniteSet(1 .. c) /\ Cardinality(1 .. c) = c /\ S \in SUBSET (1 .. c)
  BY <1>1, <1>2, FS_Interval, SMTT(60)
<1>4. 1 .. c = S
  BY <1>3, FS_Subset
<1>. QED
  BY <1>1, <1>4

-----------------------------------------------------------------------------
(* Compaction *)

LEMMA LiveSlotsFinite ==
    ASSUME NEW s \in Seq(Slot)
    PROVE  /\ LiveSlots(s) \in SUBSET Nat
           /\ IsFiniteSet(LiveSlots(s))
           /\ Cardinality(LiveSlots(s)) \in Nat
<1>1. Len(s) \in Nat /\ DOMAIN s = 1 .. Len(s)
  BY LenProperties
<1>2. LiveSlots(s) \subseteq 1 .. Len(s)
  BY <1>1 DEF LiveSlots
<1>3. IsFiniteSet(1 .. Len(s))
  BY <1>1, FS_Interval
<1>. QED
  BY <1>1, <1>2, <1>3, FS_Subset, FS_CardinalityType

(* What compaction keeps: the n-th slot is the live one of rank n.         *)
LEMMA RetainProperties ==
    ASSUME NEW s \in Seq(Slot)
    PROVE  /\ Retain(s) \in Seq(Slot)
           /\ Len(Retain(s)) = Cardinality(LiveSlots(s))
           /\ \A i \in LiveSlots(s) : /\ Rank(LiveSlots(s), i) \in DOMAIN Retain(s)
                                      /\ Retain(s)[Rank(LiveSlots(s), i)] = s[i]
           /\ \A n \in DOMAIN Retain(s) : \E i \in LiveSlots(s) :
                  Rank(LiveSlots(s), i) = n /\ Retain(s)[n] = s[i]
<1> DEFINE kept == LiveSlots(s)
           N == Cardinality(kept)
           at(n) == CHOOSE i \in kept : Rank(kept, i) = n
<1>1. kept \in SUBSET Nat /\ IsFiniteSet(kept) /\ N \in Nat
  BY LiveSlotsFinite
<1>2. Retain(s) = [n \in 1 .. N |-> s[at(n)]]
  BY DEF Retain, LiveSlots, Rank
<1>3. \A i \in kept : Rank(kept, i) \in 1 .. N /\ at(Rank(kept, i)) = i
  <2> TAKE i \in kept
  <2>1. \A j \in kept : Rank(kept, j) = Rank(kept, i) => j = i
    <3> TAKE j \in kept
    <3>1. i \in Nat /\ j \in Nat /\ Rank(kept, i) \in 1 .. N
      BY <1>1, Ranks
    <3>2. i < j <=> Rank(kept, i) < Rank(kept, j)
      BY <1>1, Ranks
    <3>3. j < i <=> Rank(kept, j) < Rank(kept, i)
      BY <1>1, Ranks
    <3>. QED
      BY <1>1, <3>1, <3>2, <3>3
  <2>2. Rank(kept, i) \in 1 .. N
    BY <1>1, Ranks
  <2>. QED
    BY <2>1, <2>2
<1>4. \A n \in 1 .. N : at(n) \in kept /\ Rank(kept, at(n)) = n
  BY <1>1, Ranks
<1>5. \A n \in 1 .. N : s[at(n)] \in Slot
  BY <1>4, LenProperties, ElementOfSeq DEF LiveSlots
<1> HIDE DEF kept, at, N
<1>6. Retain(s) \in Seq(Slot) /\ Len(Retain(s)) = N /\ DOMAIN Retain(s) = 1 .. N
  <2>1. Retain(s) \in [1 .. N -> Slot]
    BY <1>2, <1>5
  <2>. QED
    BY <1>1, <1>2, <2>1
<1>7. \A i \in kept : Rank(kept, i) \in DOMAIN Retain(s) /\ Retain(s)[Rank(kept, i)] = s[i]
  BY <1>2, <1>3, <1>6
<1>8. \A n \in DOMAIN Retain(s) : \E i \in kept : Rank(kept, i) = n /\ Retain(s)[n] = s[i]
  BY <1>2, <1>4, <1>6
<1>. QED
  BY <1>6, <1>7, <1>8 DEF kept, N

-----------------------------------------------------------------------------
(* Cursors *)

Iterator == [next_id : Nat, hint : Nat, done : BOOLEAN]

(* The positions that a cursor has passed.                                 *)
Consumed(q) == {i \in DOMAIN slots : slots[i].id < q.next_id}

(* Since ids ascend, those are the first so many positions; and a hint     *)
(* whose neighbours bear it out is their number.                           *)
LEMMA LocateExact ==
    ASSUME TypeOK, SlotsSorted, NEW q \in Iterator
    PROVE  /\ Cardinality(Consumed(q)) \in 0 .. Len(slots)
           /\ Consumed(q) = 1 .. Cardinality(Consumed(q))
           /\ HintHolds(q) => q.hint = Cardinality(Consumed(q))
           /\ Locate(q) = Cardinality(Consumed(q))
<1> DEFINE m == Cardinality(Consumed(q))
<1>1. /\ slots \in Seq(Slot) /\ Len(slots) \in Nat /\ DOMAIN slots = 1 .. Len(slots)
      /\ \A i \in 1 .. Len(slots) : slots[i].id \in Nat
      /\ q.next_id \in Nat /\ q.hint \in Nat
  <2>1. slots \in Seq(Slot)
    BY DEF TypeOK, Slot, Entry
  <2>2. \A i \in 1 .. Len(slots) : slots[i] \in Slot
    BY <2>1, ElementOfSeq
  <2>3. \A i \in 1 .. Len(slots) : slots[i].id \in Nat
    BY <2>2 DEF Slot
  <2>. QED
    BY <2>1, <2>3, LenProperties DEF Iterator
<1>2. Consumed(q) \in SUBSET (1 .. Len(slots))
  BY <1>1 DEF Consumed
<1>3. ASSUME NEW i \in Consumed(q), NEW j \in 1 .. i PROVE j \in Consumed(q)
  <2>1. i \in 1 .. Len(slots) /\ j \in 1 .. Len(slots) /\ (j = i \/ j < i)
    BY <1>1, <1>2
  <2>2. slots[i].id < q.next_id
    BY DEF Consumed
  <2>3. slots[j].id < q.next_id
    BY <1>1, <2>1, <2>2, SMTT(60) DEF SlotsSorted
  <2>. QED
    BY <1>1, <2>1, <2>3 DEF Consumed
<1>4. m \in Nat /\ Consumed(q) = 1 .. m
  BY <1>1, <1>2, <1>3, GaplessSet
<1>5. m <= Len(slots)
  <2>1. m = 0 \/ m \in Consumed(q)
    BY <1>4
  <2>. QED
    BY <1>1, <1>2, <2>1
<1>6. HintHolds(q) => q.hint = m
  <2> HAVE HintHolds(q)
  <2>1. q.hint <= m
    <3>1. CASE q.hint = 0
      BY <1>4, <3>1
    <3>2. CASE q.hint # 0
      <4>1. q.hint \in 1 .. Len(slots) /\ slots[q.hint].id < q.next_id
        BY <1>1, <3>2 DEF HintHolds
      <4>2. q.hint \in Consumed(q)
        BY <1>1, <4>1 DEF Consumed
      <4>. QED
        BY <1>4, <4>2
    <3>. QED
      BY <3>1, <3>2
  <2>2. ~(q.hint < m)
    <3> SUFFICES ASSUME q.hint < m PROVE FALSE
      OBVIOUS
    <3>1. q.hint + 1 \in 1 .. m /\ q.hint < Len(slots)
      BY <1>1, <1>4, <1>5
    <3>2. slots[q.hint + 1].id < q.next_id
      BY <1>4, <3>1 DEF Consumed
    <3>3. slots[q.hint + 1].id >= q.next_id
      BY <1>1, <3>1 DEF HintHolds
    <3>4. q.hint + 1 \in 1 .. Len(slots)
      BY <1>1, <3>1
    <3>. QED
      BY <1>1, <3>2, <3>3, <3>4
  <2>. QED
    BY <1>1, <1>4, <2>1, <2>2
<1>7. Locate(q) = m
  BY <1>6 DEF Locate, Consumed
<1>. QED
  BY <1>1, <1>4, <1>5, <1>6, <1>7

-----------------------------------------------------------------------------
(* The inductive invariant *)

IInv == TypeOK /\ SlotsSorted /\ IndexExact /\ TombstonesBounded

LEMMA InitIInv == Init => IInv
<1> SUFFICES ASSUME Init PROVE IInv
  OBVIOUS
<1> USE FloorAssumption DEF Init
<1>1. slots \in Seq(Slot) /\ Len(slots) = 0 /\ DOMAIN slots = {}
  BY EmptySeq
<1>2. TypeOK
  BY <1>1 DEF TypeOK, Slot, Entry
<1>3. SlotsSorted
  BY <1>1 DEF SlotsSorted
<1>4. {i \in DOMAIN slots : Alive(i)} = {}
  BY <1>1
<1>5. IndexExact
  BY <1>1, <1>4, FS_EmptySet DEF IndexExact
<1>6. TombstonesBounded
  BY <1>1 DEF TombstonesBounded
<1>. QED
  BY <1>2, <1>3, <1>5, <1>6 DEF IInv

(* What the invariant says, in the words of this module.                   *)
LEMMA Facts ==
    ASSUME IInv
    PROVE  /\ slots \in Seq(Slot) /\ Len(slots) \in Nat /\ DOMAIN slots = 1 .. Len(slots)
           /\ \A i \in DOMAIN slots : slots[i] \in Slot
           /\ index \in [Keys -> Nat \cup {None}]
           /\ live \in Nat /\ next_id \in Nat
           /\ cursor \in [Cursors -> Iterator]
           /\ live = Cardinality(LiveSlots(slots))
           /\ \A i \in LiveSlots(slots) : slots[i].entry \in Entry
           /\ \A k \in Keys : index[k] # None =>
                  index[k] \in LiveSlots(slots) /\ slots[index[k]].entry.key = k
           /\ \A i \in LiveSlots(slots) : index[slots[i].entry.key] = i
<1>1. slots \in Seq(Slot)
  BY DEF IInv, TypeOK, Slot, Entry
<1>2. Len(slots) \in Nat /\ DOMAIN slots = 1 .. Len(slots)
  BY <1>1, LenProperties
<1>3. \A i \in DOMAIN slots : slots[i] \in Slot
  BY <1>1, <1>2, ElementOfSeq
<1>4. LiveSlots(slots) = {i \in DOMAIN slots : Alive(i)}
  BY DEF LiveSlots, Alive
<1>5. \A i \in LiveSlots(slots) : slots[i].entry \in Entry
  BY <1>3 DEF LiveSlots, Slot
<1>6. /\ index \in [Keys -> Nat \cup {None}] /\ live \in Nat /\ next_id \in Nat
      /\ cursor \in [Cursors -> Iterator]
  BY DEF IInv, TypeOK, Iterator
<1>7. live = Cardinality(LiveSlots(slots))
  BY <1>4 DEF IInv, IndexExact
<1>8. \A k \in Keys : index[k] # None =>
          index[k] \in LiveSlots(slots) /\ slots[index[k]].entry.key = k
  BY <1>4 DEF IInv, IndexExact
<1>9. \A i \in LiveSlots(slots) : index[slots[i].entry.key] = i
  BY <1>4 DEF IInv, IndexExact
<1>. QED
  BY <1>1, <1>2, <1>3, <1>5, <1>6, <1>7, <1>8, <1>9

(* A slot keeps its id when its entry is replaced or taken out.            *)
WithEntry(s, p, e) == [s EXCEPT ![p].entry = e]

LEMMA EntryReplaced ==
    ASSUME NEW s \in Seq(Slot), NEW p \in DOMAIN s, NEW e \in Entry \cup {None}
    PROVE  LET t == WithEntry(s, p, e) IN
           /\ t \in Seq(Slot) /\ Len(t) = Len(s) /\ DOMAIN t = DOMAIN s
           /\ \A i \in DOMAIN s : /\ t[i].id = s[i].id
                                  /\ t[i].entry = IF i = p THEN e ELSE s[i].entry
<1> DEFINE t == WithEntry(s, p, e)
<1>1. Len(s) \in Nat /\ DOMAIN s = 1 .. Len(s) /\ s \in [1 .. Len(s) -> Slot]
  BY LenProperties
<1>2. s[p] \in Slot /\ [s[p] EXCEPT !.entry = e] \in Slot
  BY <1>1 DEF Slot
<1>3. t = [s EXCEPT ![p] = [s[p] EXCEPT !.entry = e]]
  BY <1>1 DEF WithEntry
<1> HIDE DEF t
<1>4. /\ t \in Seq(Slot) /\ Len(t) = Len(s)
      /\ \A i \in 1 .. Len(s) : t[i] = IF i = p THEN [s[p] EXCEPT !.entry = e] ELSE s[i]
  BY <1>1, <1>2, <1>3, ExceptSeq
<1>5. DOMAIN t = DOMAIN s
  BY <1>1, <1>4, LenProperties
<1>6. \A i \in DOMAIN s : /\ t[i].id = s[i].id
                          /\ t[i].entry = IF i = p THEN e ELSE s[i].entry
  BY <1>1, <1>2, <1>4 DEF Slot
<1>. QED
  BY <1>4, <1>5, <1>6 DEF t

LEMMA OverwritePreserves ==
    ASSUME IInv, NEW k \in Keys, NEW v \in Values, Overwrite(k, v)
    PROVE  IInv'
<1> DEFINE p == index[k]
           e == [slots[p].entry EXCEPT !.value = v]
<1>1. /\ slots \in Seq(Slot) /\ p \in LiveSlots(slots) /\ slots[p].entry.key = k
      /\ p \in DOMAIN slots /\ slots[p].entry \in Entry
  BY Facts DEF Overwrite, LiveSlots
<1>2. e \in Entry /\ e.key = k /\ e # None
  BY <1>1, NoneAssumption DEF Entry
<1>3. slots' = WithEntry(slots, p, e) /\ UNCHANGED <<index, live, next_id, cursor>>
  BY DEF Overwrite, WithEntry
<1> HIDE DEF e
<1>4. /\ slots' \in Seq(Slot) /\ Len(slots') = Len(slots) /\ DOMAIN slots' = DOMAIN slots
      /\ \A i \in DOMAIN slots : /\ slots'[i].id = slots[i].id
                                 /\ slots'[i].entry = IF i = p THEN e ELSE slots[i].entry
  <2>1. e \in Entry \cup {None}
    BY <1>2
  <2>2. LET t == WithEntry(slots, p, e) IN
        /\ t \in Seq(Slot) /\ Len(t) = Len(slots) /\ DOMAIN t = DOMAIN slots
        /\ \A i \in DOMAIN slots : /\ t[i].id = slots[i].id
                                   /\ t[i].entry = IF i = p THEN e ELSE slots[i].entry
    BY <1>1, <2>1, EntryReplaced, ZenonT(60)
  <2>. QED
    BY <1>3, <2>2
<1>5. TypeOK'
  BY <1>3, <1>4 DEF IInv, TypeOK, Slot, Entry
<1>6. SlotsSorted'
  BY <1>3, <1>4 DEF IInv, SlotsSorted
<1>7. {i \in DOMAIN slots' : Alive(i)'} = {i \in DOMAIN slots : Alive(i)}
  BY <1>1, <1>2, <1>4 DEF Alive, LiveSlots
<1>8. IndexExact'
  <2>1. \A j \in Keys : index[j] # None =>
            /\ index[j] \in DOMAIN slots /\ slots'[index[j]].entry # None
            /\ slots'[index[j]].entry.key = j
    BY <1>1, <1>2, <1>4 DEF IInv, IndexExact, Alive
  <2>2. \A i \in DOMAIN slots : slots'[i].entry # None => index[slots'[i].entry.key] = i
    BY <1>1, <1>2, <1>4 DEF IInv, IndexExact, Alive
  <2>. QED
    BY <1>3, <1>4, <1>7, <2>1, <2>2 DEF IInv, IndexExact, Alive
<1>9. TombstonesBounded'
  BY <1>3, <1>4 DEF IInv, TombstonesBounded
<1>. QED
  BY <1>5, <1>6, <1>8, <1>9 DEF IInv

LEMMA InsertPreserves ==
    ASSUME IInv, NEW k \in Keys, NEW v \in Values, Insert(k, v)
    PROVE  IInv'
<1> DEFINE n == Len(slots) + 1
           new == [id |-> next_id, entry |-> [key |-> k, value |-> v]]
<1>1. /\ slots \in Seq(Slot) /\ Len(slots) \in Nat /\ DOMAIN slots = 1 .. Len(slots)
      /\ index \in [Keys -> Nat \cup {None}] /\ live \in Nat /\ next_id \in Nat
      /\ live = Cardinality(LiveSlots(slots))
      /\ \A i \in DOMAIN slots : slots[i] \in Slot
  BY Facts
<1>2. /\ slots' = Append(slots, new) /\ index' = [index EXCEPT ![k] = n]
      /\ live' = live + 1 /\ next_id' = next_id + 1 /\ cursor' = cursor
      /\ index[k] = None
  BY DEF Insert
<1>3. new \in Slot /\ new.id = next_id /\ new.entry.key = k /\ new.entry # None
  BY <1>1, NoneAssumption DEF Slot, Entry
<1> HIDE DEF new
<1>4. /\ slots' \in Seq(Slot) /\ Len(slots') = n /\ DOMAIN slots' = 1 .. n
      /\ \A i \in 1 .. Len(slots) : slots'[i] = slots[i]
      /\ slots'[n] = new
  BY <1>1, <1>2, <1>3, AppendProperties, LenProperties
<1>5. 1 .. n = (DOMAIN slots) \cup {n} /\ n \notin DOMAIN slots /\ n \in Nat
  BY <1>1
<1>6. TypeOK'
  BY <1>1, <1>2, <1>4, <1>5, SMTT(60) DEF IInv, TypeOK, Slot, Entry
<1>7. SlotsSorted'
  <2>1. \A i \in DOMAIN slots : slots[i].id < next_id /\ slots[i].id \in Nat
    BY <1>1 DEF IInv, SlotsSorted, Slot
  <2>2. \A i \in 1 .. n : slots'[i].id < next_id + 1
    BY <1>1, <1>3, <1>4, <1>5, <2>1, SMTT(60)
  <2>3. \A i, j \in 1 .. n : i < j => slots'[i].id < slots'[j].id
    <3> TAKE i, j \in 1 .. n
    <3> HAVE i < j
    <3>1. i \in 1 .. Len(slots)
      BY <1>1
    <3>2. CASE j = n
      BY <1>1, <1>3, <1>4, <2>1, <3>1, <3>2
    <3>3. CASE j # n
      <4>1. j \in 1 .. Len(slots)
        BY <1>1, <3>3
      <4>. QED
        BY <1>1, <1>4, <3>1, <4>1 DEF IInv, SlotsSorted
    <3>. QED
      BY <3>2, <3>3
  <2>. QED
    BY <1>2, <1>4, <2>2, <2>3 DEF SlotsSorted
<1>8. \A i \in LiveSlots(slots) : slots[i].entry.key \in Keys /\ slots[i].entry.key # k
  BY <1>1, <1>2, NoneAssumption, Facts DEF LiveSlots, Entry
<1>9. LiveSlots(slots') = LiveSlots(slots) \cup {n} /\ n \notin LiveSlots(slots)
  BY <1>1, <1>3, <1>4, <1>5 DEF LiveSlots
<1>10. IndexExact'
  <2>1. live' = Cardinality(LiveSlots(slots'))
    <3>1. IsFiniteSet(LiveSlots(slots))
      BY <1>1, LiveSlotsFinite
    <3>. QED
      BY <1>1, <1>2, <1>9, <3>1, FS_AddElement, ZenonT(60)
  <2>2. \A j \in Keys : index'[j] # None =>
            index'[j] \in LiveSlots(slots') /\ slots'[index'[j]].entry.key = j
    <3> TAKE j \in Keys
    <3> HAVE index'[j] # None
    <3>1. CASE j = k
      BY <1>1, <1>2, <1>3, <1>4, <1>9, <3>1
    <3>2. CASE j # k
      <4>1. index'[j] = index[j]
        BY <1>1, <1>2, <3>2
      <4>2. index[j] \in LiveSlots(slots) /\ slots[index[j]].entry.key = j
        BY <4>1, Facts
      <4>. QED
        BY <1>1, <1>4, <1>9, <4>1, <4>2 DEF LiveSlots
    <3>. QED
      BY <3>1, <3>2
  <2>3. \A i \in LiveSlots(slots') : index'[slots'[i].entry.key] = i
    <3> TAKE i \in LiveSlots(slots')
    <3>1. CASE i = n
      BY <1>1, <1>2, <1>3, <1>4, <3>1
    <3>2. CASE i # n
      <4>1. i \in LiveSlots(slots) /\ slots'[i] = slots[i]
        BY <1>1, <1>4, <1>9, <3>2 DEF LiveSlots
      <4>2. index[slots[i].entry.key] = i
        BY <4>1, Facts
      <4>. QED
        BY <1>1, <1>2, <1>8, <4>1, <4>2
    <3>. QED
      BY <3>1, <3>2
  <2>. QED
    BY <2>1, <2>2, <2>3 DEF IndexExact, Alive, LiveSlots
<1>11. TombstonesBounded'
  BY <1>1, <1>2, <1>4, FloorAssumption DEF IInv, TombstonesBounded
<1>. QED
  BY <1>6, <1>7, <1>10, <1>11 DEF IInv

(* The slots and the index as Delete makes them.                           *)
BuriedSlots(k) == WithEntry(slots, index[k], None)
KeptSlots(k) == Retain(BuriedSlots(k))
MovedIndex(k) ==
    [j \in Keys |-> IF \E n \in DOMAIN KeptSlots(k) : KeptSlots(k)[n].entry.key = j
                    THEN CHOOSE n \in DOMAIN KeptSlots(k) : KeptSlots(k)[n].entry.key = j
                    ELSE [index EXCEPT ![k] = None][j]]

(* A deletion takes one live slot out of the count, and moves no id.       *)
LEMMA Buried ==
    ASSUME IInv, NEW k \in Keys, index[k] # None
    PROVE  LET t == BuriedSlots(k) IN
           /\ t \in Seq(Slot) /\ Len(t) = Len(slots) /\ DOMAIN t = DOMAIN slots
           /\ \A i \in DOMAIN slots : t[i].id = slots[i].id
           /\ LiveSlots(t) = LiveSlots(slots) \ {index[k]}
           /\ \A i \in LiveSlots(t) : t[i].entry = slots[i].entry
           /\ Cardinality(LiveSlots(t)) = live - 1 /\ live - 1 \in Nat
           /\ \A i \in LiveSlots(t) : slots[i].entry.key \in Keys \ {k}
<1> DEFINE p == index[k]
           t == BuriedSlots(k)
<1>1. slots \in Seq(Slot) /\ p \in LiveSlots(slots) /\ p \in DOMAIN slots
  BY Facts DEF LiveSlots
<1>2. /\ t \in Seq(Slot) /\ Len(t) = Len(slots) /\ DOMAIN t = DOMAIN slots
      /\ \A i \in DOMAIN slots : /\ t[i].id = slots[i].id
                                 /\ t[i].entry = IF i = p THEN None ELSE slots[i].entry
  <2>1. None \in Entry \cup {None} /\ t = WithEntry(slots, p, None)
    BY DEF BuriedSlots
  <2>. QED
    BY <1>1, <2>1, EntryReplaced
<1> HIDE DEF t
<1>3. /\ LiveSlots(t) = LiveSlots(slots) \ {p}
      /\ \A i \in LiveSlots(t) : t[i].entry = slots[i].entry
  BY <1>1, <1>2 DEF LiveSlots
<1>4. IsFiniteSet(LiveSlots(slots)) /\ Cardinality(LiveSlots(slots)) = live
  BY <1>1, LiveSlotsFinite, Facts
<1>5. Cardinality(LiveSlots(t)) = live - 1
  BY <1>1, <1>3, <1>4, FS_RemoveElement
<1>6. live - 1 \in Nat
  BY <1>2, <1>5, LiveSlotsFinite
<1>7. \A i \in LiveSlots(t) : slots[i].entry.key \in Keys \ {k}
  <2> TAKE i \in LiveSlots(t)
  <2>1. i \in LiveSlots(slots) /\ i # p
    BY <1>3
  <2>2. slots[i].entry.key \in Keys /\ index[slots[i].entry.key] = i
    BY <2>1, Facts DEF Entry
  <2>. QED
    BY <2>1, <2>2
<1>. QED
  BY <1>2, <1>3, <1>5, <1>6, <1>7 DEF t

(* The index after a deletion that compacts.                               *)
LEMMA CompactedIndex ==
    ASSUME IInv, NEW k \in Keys, index[k] # None
    PROVE  LET kept == KeptSlots(k)
               moved == MovedIndex(k)
           IN
           /\ kept \in Seq(Slot) /\ Len(kept) = live - 1 /\ live - 1 \in Nat
           /\ DOMAIN kept = 1 .. live - 1
           /\ \A n \in DOMAIN kept : kept[n].entry # None /\ kept[n].id < next_id
           /\ \A n, m \in DOMAIN kept : n < m => kept[n].id < kept[m].id
           /\ moved \in [Keys -> Nat \cup {None}]
           /\ \A j \in Keys : moved[j] # None =>
                  moved[j] \in DOMAIN kept /\ kept[moved[j]].entry.key = j
           /\ \A n \in DOMAIN kept : moved[kept[n].entry.key] = n
<1> DEFINE buried == BuriedSlots(k)
           L == LiveSlots(buried)
           kept == KeptSlots(k)
           moved == MovedIndex(k)
<1>1. /\ buried \in Seq(Slot) /\ DOMAIN buried = DOMAIN slots
      /\ \A i \in DOMAIN slots : buried[i].id = slots[i].id
      /\ L = LiveSlots(slots) \ {index[k]}
      /\ \A i \in L : buried[i].entry = slots[i].entry
      /\ Cardinality(L) = live - 1 /\ live - 1 \in Nat
      /\ \A i \in L : slots[i].entry.key \in Keys \ {k}
  BY Buried
<1> HIDE DEF buried
<1>2. /\ kept \in Seq(Slot) /\ Len(kept) = live - 1
      /\ \A i \in L : Rank(L, i) \in DOMAIN kept /\ kept[Rank(L, i)] = buried[i]
      /\ \A n \in DOMAIN kept : \E i \in L : Rank(L, i) = n /\ kept[n] = buried[i]
  BY <1>1, RetainProperties DEF KeptSlots, buried
<1> HIDE DEF L, kept
<1>3. DOMAIN kept = 1 .. live - 1
  BY <1>2, LenProperties
<1>4. L \in SUBSET Nat /\ IsFiniteSet(L) /\ L \subseteq DOMAIN slots
  BY <1>1, LiveSlotsFinite DEF LiveSlots, L
<1>5. \A n \in DOMAIN kept : kept[n].entry # None /\ kept[n].id < next_id
  <2> TAKE n \in DOMAIN kept
  <2>1. PICK i \in L : kept[n] = buried[i]
    BY <1>2
  <2>2. buried[i].entry # None /\ buried[i].id = slots[i].id /\ i \in DOMAIN slots
    BY <1>1, <1>4 DEF LiveSlots, L
  <2>. QED
    BY <2>1, <2>2 DEF IInv, SlotsSorted
<1>6. \A n, m \in DOMAIN kept : n < m => kept[n].id < kept[m].id
  <2> TAKE n, m \in DOMAIN kept
  <2> HAVE n < m
  <2>1. PICK i \in L : Rank(L, i) = n /\ kept[n] = buried[i]
    BY <1>2
  <2>2. PICK j \in L : Rank(L, j) = m /\ kept[m] = buried[j]
    BY <1>2
  <2>3. i < j
    BY <1>4, <2>1, <2>2, Ranks
  <2>4. slots[i].id < slots[j].id /\ buried[i].id = slots[i].id /\ buried[j].id = slots[j].id
    BY <1>1, <1>4, <2>3 DEF IInv, SlotsSorted
  <2>. QED
    BY <2>1, <2>2, <2>4
<1>7. \A n \in DOMAIN kept : \E i \in L :
          /\ Rank(L, i) = n /\ kept[n].entry.key = slots[i].entry.key
          /\ slots[i].entry.key \in Keys /\ index[slots[i].entry.key] = i
  <2> TAKE n \in DOMAIN kept
  <2>1. PICK i \in L : Rank(L, i) = n /\ kept[n] = buried[i]
    BY <1>2
  <2>2. kept[n].entry.key = slots[i].entry.key /\ slots[i].entry.key \in Keys
    BY <1>1, <2>1
  <2>3. index[slots[i].entry.key] = i
    BY <1>1, Facts
  <2>. QED
    BY <2>1, <2>2, <2>3
<1>8. \A n, m \in DOMAIN kept : kept[n].entry.key = kept[m].entry.key => n = m
  BY <1>7
<1>9. \A j \in Keys \ {k} : index[j] # None =>
          \E n \in DOMAIN kept : kept[n].entry.key = j
  <2> TAKE j \in Keys \ {k}
  <2> HAVE index[j] # None
  <2>1. index[j] \in L /\ slots[index[j]].entry.key = j
    BY <1>1, Facts
  <2>2. Rank(L, index[j]) \in DOMAIN kept /\ kept[Rank(L, index[j])].entry.key = j
    BY <1>1, <1>2, <2>1
  <2>. QED
    BY <2>2
<1>10. ASSUME NEW j \in Keys
       PROVE  \/ \E n \in DOMAIN kept : moved[j] = n /\ kept[n].entry.key = j
              \/ moved[j] = None /\ \A n \in DOMAIN kept : kept[n].entry.key # j
  <2>1. CASE \E n \in DOMAIN kept : kept[n].entry.key = j
    <3>1. moved[j] = CHOOSE n \in DOMAIN kept : kept[n].entry.key = j
      BY <2>1 DEF MovedIndex, kept
    <3>. QED
      BY <2>1, <3>1
  <2>2. CASE ~\E n \in DOMAIN kept : kept[n].entry.key = j
    <3>1. moved[j] = [index EXCEPT ![k] = None][j] /\ index \in [Keys -> Nat \cup {None}]
      BY <2>2, Facts DEF MovedIndex, kept
    <3>. QED
      BY <1>9, <2>2, <3>1
  <2>. QED
    BY <2>1, <2>2
<1>11. DOMAIN kept \subseteq Nat
  BY <1>1, <1>3
<1>12. moved \in [Keys -> Nat \cup {None}]
  <2>1. \A j \in Keys : moved[j] \in Nat \cup {None}
    BY <1>10, <1>11
  <2>. QED
    BY <2>1 DEF MovedIndex
<1>13. \A j \in Keys : moved[j] # None =>
           moved[j] \in DOMAIN kept /\ kept[moved[j]].entry.key = j
  BY <1>10
<1>14. \A n \in DOMAIN kept : moved[kept[n].entry.key] = n
  <2> TAKE n \in DOMAIN kept
  <2>1. kept[n].entry.key \in Keys
    BY <1>7
  <2>. QED
    BY <1>8, <1>10, <2>1
<1>. QED
  BY <1>1, <1>2, <1>3, <1>5, <1>6, <1>12, <1>13, <1>14 DEF kept

LEMMA DeletePreserves ==
    ASSUME IInv, NEW k \in Keys, Delete(k)
    PROVE  IInv'
<1>1. /\ index[k] # None /\ live' = live - 1
      /\ UNCHANGED <<next_id, cursor>>
      /\ IF MostlyDead(BuriedSlots(k), live - 1)
         THEN slots' = KeptSlots(k) /\ index' = MovedIndex(k)
         ELSE slots' = BuriedSlots(k) /\ index' = [index EXCEPT ![k] = None]
  BY DEF Delete, BuriedSlots, WithEntry, KeptSlots, MovedIndex
<1>2. /\ index \in [Keys -> Nat \cup {None}] /\ live \in Nat /\ next_id \in Nat
      /\ cursor \in [Cursors -> Iterator]
  BY Facts
<1>3. CASE MostlyDead(BuriedSlots(k), live - 1)
  <2>1. slots' = KeptSlots(k) /\ index' = MovedIndex(k)
    BY <1>1, <1>3
  <2>2. /\ slots' \in Seq(Slot) /\ Len(slots') = live' /\ live' \in Nat
        /\ DOMAIN slots' = 1 .. live'
        /\ \A n \in DOMAIN slots' : slots'[n].entry # None /\ slots'[n].id < next_id
        /\ \A n, m \in DOMAIN slots' : n < m => slots'[n].id < slots'[m].id
        /\ index' \in [Keys -> Nat \cup {None}]
        /\ \A j \in Keys : index'[j] # None =>
               index'[j] \in DOMAIN slots' /\ slots'[index'[j]].entry.key = j
        /\ \A n \in DOMAIN slots' : index'[slots'[n].entry.key] = n
    BY <1>1, <2>1, CompactedIndex
  <2>3. TypeOK'
    BY <1>1, <1>2, <2>2 DEF TypeOK, Slot, Entry, Iterator
  <2>4. SlotsSorted'
    BY <1>1, <2>2 DEF SlotsSorted
  <2>5. IndexExact'
    <3>1. {i \in DOMAIN slots' : Alive(i)'} = 1 .. live'
      BY <2>2 DEF Alive
    <3>2. Cardinality(1 .. live') = live'
      <4>1. live' \in Nat
        BY <2>2
      <4>. QED
        BY <4>1, FS_Interval
    <3>. QED
      BY <2>2, <3>1, <3>2 DEF IndexExact, Alive
  <2>6. TombstonesBounded'
    <3>1. Len(slots') - live' = 0
      <4>1. Len(slots') = live' /\ live' \in Nat /\ Len(slots') \in Nat
        BY <2>2
      <4>2. \A n \in Nat : n - n = 0
        OBVIOUS
      <4>. QED
        BY <4>1, <4>2, Zenon
    <3>. QED
      BY <3>1, FloorAssumption DEF TombstonesBounded
  <2>. QED
    BY <2>3, <2>4, <2>5, <2>6 DEF IInv
<1>4. CASE ~MostlyDead(BuriedSlots(k), live - 1)
  <2>1. slots' = BuriedSlots(k) /\ index' = [index EXCEPT ![k] = None]
    BY <1>1, <1>4
  <2>2. /\ slots' \in Seq(Slot) /\ Len(slots') = Len(slots) /\ DOMAIN slots' = DOMAIN slots
        /\ \A i \in DOMAIN slots : slots'[i].id = slots[i].id
        /\ LiveSlots(slots') = LiveSlots(slots) \ {index[k]}
        /\ \A i \in LiveSlots(slots') : slots'[i].entry = slots[i].entry
        /\ Cardinality(LiveSlots(slots')) = live' /\ live' \in Nat
        /\ \A i \in LiveSlots(slots') : slots[i].entry.key \in Keys \ {k}
    BY <1>1, <2>1, Buried
  <2>3. TypeOK'
    BY <1>1, <1>2, <2>1, <2>2 DEF TypeOK, Slot, Entry, Iterator
  <2>4. SlotsSorted'
    BY <1>1, <2>2 DEF IInv, SlotsSorted
  <2>5. IndexExact'
    <3>1. {i \in DOMAIN slots' : Alive(i)'} = LiveSlots(slots')
      BY DEF Alive, LiveSlots
    <3>2. \A j \in Keys : index'[j] # None =>
              index'[j] \in LiveSlots(slots') /\ slots'[index'[j]].entry.key = j
      <4> TAKE j \in Keys
      <4> HAVE index'[j] # None
      <4>1. j # k /\ index'[j] = index[j]
        BY <1>2, <2>1
      <4>2. index[j] \in LiveSlots(slots) /\ slots[index[j]].entry.key = j
        BY <4>1, Facts
      <4>3. slots[index[k]].entry.key = k
        BY <1>1, Facts
      <4>. QED
        BY <2>2, <4>1, <4>2, <4>3
    <3>3. \A i \in LiveSlots(slots') : index'[slots'[i].entry.key] = i
      <4> TAKE i \in LiveSlots(slots')
      <4>1. i \in LiveSlots(slots) /\ slots'[i].entry = slots[i].entry
            /\ slots[i].entry.key \in Keys \ {k}
        BY <2>2
      <4>2. index[slots[i].entry.key] = i
        BY <4>1, Facts
      <4>. QED
        BY <1>2, <2>1, <4>1, <4>2
    <3>. QED
      BY <2>2, <3>1, <3>2, <3>3 DEF IndexExact, LiveSlots, Alive
  <2>6. TombstonesBounded'
    <3>1. Len(slots) < COMPACT_FLOOR \/ live' * 2 > Len(slots)
      BY <1>1, <1>4, <2>1, <2>2 DEF MostlyDead
    <3>2. Len(slots) \in Nat
      BY Facts
    <3>. QED
      BY <2>2, <3>1, <3>2, FloorAssumption DEF TombstonesBounded
  <2>. QED
    BY <2>3, <2>4, <2>5, <2>6 DEF IInv
<1>. QED
  BY <1>3, <1>4

LEMMA ClearPreserves ==
    ASSUME IInv, Clear
    PROVE  IInv'
<1>1. /\ slots' = <<>> /\ index' = [k \in Keys |-> None] /\ live' = 0
      /\ next_id' = next_id /\ cursor' = cursor
  BY DEF Clear
<1>2. slots' \in Seq(Slot) /\ Len(slots') = 0 /\ DOMAIN slots' = {}
  BY <1>1, EmptySeq
<1>3. TypeOK'
  BY <1>1, <1>2 DEF IInv, TypeOK, Slot, Entry
<1>4. SlotsSorted'
  BY <1>2 DEF SlotsSorted
<1>5. IndexExact'
  <2>1. {i \in DOMAIN slots' : Alive(i)'} = {}
    BY <1>2
  <2>. QED
    BY <1>1, <1>2, <2>1, FS_EmptySet DEF IndexExact
<1>6. TombstonesBounded'
  BY <1>1, <1>2, FloorAssumption DEF TombstonesBounded
<1>. QED
  BY <1>3, <1>4, <1>5, <1>6 DEF IInv

LEMMA Consuming ==
    ASSUME NEW q \in Iterator, NEW x \in Nat, NEW h \in Nat
    PROVE  [q EXCEPT !.next_id = x, !.hint = h]
           = [next_id |-> x, hint |-> h, done |-> q.done]
<1> DEFINE r == [q EXCEPT !.next_id = x]
<1>1. r = [next_id |-> x, hint |-> q.hint, done |-> q.done]
  BY DEF Iterator
<1> HIDE DEF r
<1>2. [r EXCEPT !.hint = h] = [next_id |-> x, hint |-> h, done |-> q.done]
  BY <1>1
<1>. QED
  BY <1>2 DEF r

(* Where the next entry of a cursor is, or that there is none.             *)
LEMMA StepProperties ==
    ASSUME IInv, NEW c \in Cursors, Step(c)
    PROVE  LET q == cursor[c]
               ahead == {i \in LiveSlots(slots) : slots[i].id >= q.next_id}
           IN  /\ ~q.done
               /\ UNCHANGED <<slots, index, live, next_id>>
               /\ \/ \E i \in ahead :
                         /\ \A j \in ahead : i <= j
                         /\ cursor' = [cursor EXCEPT ![c] =
                                [next_id |-> slots[i].id + 1, hint |-> i, done |-> FALSE]]
                  \/ /\ ahead = {}
                     /\ \E r \in Iterator : r.done /\ cursor' = [cursor EXCEPT ![c] = r]
<1> DEFINE q == cursor[c]
           m == Cardinality(Consumed(q))
           scan == m + 1 .. Len(slots)
           found == {i \in scan : Alive(i)}
           ahead == {i \in LiveSlots(slots) : slots[i].id >= q.next_id}
           consume(i) == [q EXCEPT !.next_id = slots[i].id + 1, !.hint = i]
<1>1. /\ slots \in Seq(Slot) /\ Len(slots) \in Nat /\ DOMAIN slots = 1 .. Len(slots)
      /\ q \in Iterator
      /\ \A i \in DOMAIN slots : slots[i].id \in Nat
  BY Facts DEF Slot
<1>2. /\ m \in 0 .. Len(slots) /\ Consumed(q) = 1 .. m /\ Locate(q) = m
  BY <1>1, LocateExact DEF IInv
<1>3. /\ ~q.done /\ UNCHANGED <<slots, index, live, next_id>>
      /\ cursor' = [cursor EXCEPT ![c] =
             IF found # {}
             THEN consume(CHOOSE i \in found : \A j \in found : i <= j)
             ELSE [IF scan = {} THEN q ELSE consume(Len(slots)) EXCEPT !.done = TRUE]]
  BY <1>2 DEF Step
<1>4. found = ahead
  <2>1. ASSUME NEW i \in DOMAIN slots PROVE i \in scan <=> slots[i].id >= q.next_id
    <3>1. i \in 1 .. m <=> slots[i].id < q.next_id
      BY <1>2 DEF Consumed
    <3>2. slots[i].id \in Nat /\ q.next_id \in Nat
      BY <1>1 DEF Iterator
    <3>. QED
      BY <1>1, <1>2, <3>1, <3>2
  <2>2. \A i \in scan : i \in DOMAIN slots
    BY <1>1, <1>2
  <2>. QED
    BY <2>1, <2>2 DEF LiveSlots, Alive
<1>5. ahead \in SUBSET Nat /\ IsFiniteSet(ahead)
  BY <1>1, LiveSlotsFinite, FS_Subset
<1>6. CASE found # {}
  <2> DEFINE i == CHOOSE i \in found : \A j \in found : i <= j
  <2>1. i \in ahead /\ \A j \in ahead : i <= j
    BY <1>4, <1>5, <1>6, LeastOf
  <2> HIDE DEF i
  <2>2. consume(i) = [next_id |-> slots[i].id + 1, hint |-> i, done |-> FALSE]
    <3>1. q \in Iterator /\ q.done = FALSE
      BY <1>1, <1>3 DEF Iterator
    <3>2. slots[i].id + 1 \in Nat /\ i \in Nat
      BY <1>1, <1>5, <2>1 DEF LiveSlots
    <3>3. consume(i) = [next_id |-> slots[i].id + 1, hint |-> i, done |-> q.done]
      BY <3>1, <3>2, Consuming, Zenon
    <3>. QED
      BY <3>1, <3>3
  <2>. QED
    BY <1>3, <1>6, <2>1, <2>2 DEF i
<1>7. CASE found = {}
  <2> DEFINE r == [IF scan = {} THEN q ELSE consume(Len(slots)) EXCEPT !.done = TRUE]
  <2>1. scan # {} => Len(slots) \in Nat /\ slots[Len(slots)].id + 1 \in Nat
    <3> HAVE scan # {}
    <3>1. Len(slots) \in DOMAIN slots
      BY <1>1, <1>2
    <3>. QED
      BY <1>1, <3>1
  <2>2. r \in Iterator /\ r.done
    <3>1. CASE scan = {}
      BY <1>1, <3>1 DEF Iterator
    <3>2. CASE scan # {}
      <4>1. consume(Len(slots)) \in Iterator
        BY <1>1, <2>1, <3>2 DEF Iterator
      <4>. QED
        BY <3>2, <4>1 DEF Iterator
    <3>. QED
      BY <3>1, <3>2
  <2>. QED
    BY <1>3, <1>4, <1>7, <2>2
<1>. QED
  BY <1>6, <1>7

LEMMA CursorPreserves ==
    ASSUME IInv, NEW c \in Cursors, Open(c) \/ Step(c)
    PROVE  IInv'
<1>1. UNCHANGED <<slots, index, live, next_id>>
  BY DEF Open, Step
<1>2. cursor' \in [Cursors -> Iterator]
  <2>1. cursor \in [Cursors -> Iterator]
    BY Facts
  <2>2. CASE Open(c)
    BY <2>1, <2>2 DEF Open, Iterator
  <2>3. CASE Step(c)
    <3>1. \A i \in LiveSlots(slots) : slots[i].id \in Nat /\ i \in Nat
      BY Facts DEF LiveSlots, Slot
    <3>2. \/ \E i \in LiveSlots(slots) : cursor' = [cursor EXCEPT ![c] =
                 [next_id |-> slots[i].id + 1, hint |-> i, done |-> FALSE]]
          \/ \E r \in Iterator : cursor' = [cursor EXCEPT ![c] = r]
      BY <2>3, StepProperties
    <3>3. \A i \in LiveSlots(slots) :
              [next_id |-> slots[i].id + 1, hint |-> i, done |-> FALSE] \in Iterator
      BY <3>1 DEF Iterator
    <3>4. \E r \in Iterator : cursor' = [cursor EXCEPT ![c] = r]
      BY <3>2, <3>3
    <3>. QED
      BY <2>1, <3>4
  <2>. QED
    BY <2>2, <2>3
<1>3. TypeOK'
  BY <1>1, <1>2 DEF IInv, TypeOK, Iterator
<1>. QED
  BY <1>1, <1>3 DEF IInv, SlotsSorted, IndexExact, TombstonesBounded, Alive

LEMMA NextPreserves ==
    ASSUME IInv, [Next]_vars
    PROVE  IInv'
<1>1. ASSUME NEW k \in Keys, NEW v \in Values, Set(k, v) PROVE IInv'
  BY <1>1, OverwritePreserves, InsertPreserves DEF Set
<1>2. ASSUME NEW k \in Keys, Delete(k) PROVE IInv'
  BY <1>2, DeletePreserves
<1>3. CASE Clear
  BY <1>3, ClearPreserves
<1>4. ASSUME NEW c \in Cursors, Open(c) \/ Step(c) PROVE IInv'
  BY <1>4, CursorPreserves
<1>5. CASE UNCHANGED vars
  BY <1>5 DEF vars, IInv, TypeOK, SlotsSorted, IndexExact, TombstonesBounded, Alive
<1>. QED
  BY <1>1, <1>2, <1>3, <1>4, <1>5 DEF Next

LEMMA Inductive == Spec => []IInv
<1>1. Init => IInv
  BY InitIInv
<1>2. IInv /\ [Next]_vars => IInv'
  BY NextPreserves
<1>. QED
  BY <1>1, <1>2, PTL DEF Spec

-----------------------------------------------------------------------------
(* Invariants *)

(* Slots, ids, index and cursors stay what they are declared to be: no     *)
(* call leaves a position or an id that the next one could not use.        *)
THEOREM TypeCorrect == Spec => []TypeOK
<1>1. IInv => TypeOK
  BY DEF IInv
<1>. QED
  BY <1>1, Inductive, PTL

(* Ids ascend along the vector and are never reused, however many          *)
(* compactions and clears have run: what the binary search of a cursor     *)
(* relies on.                                                              *)
THEOREM IdsAscend == Spec => []SlotsSorted
<1>1. IInv => SlotsSorted
  BY DEF IInv
<1>. QED
  BY <1>1, Inductive, PTL

(* The index points at the live slot of every live key and at nothing      *)
(* else, also after a compaction has moved every slot; live counts them.   *)
THEOREM IndexCorrect == Spec => []IndexExact
<1>1. IInv => IndexExact
  BY DEF IInv
<1>. QED
  BY <1>1, Inductive, PTL

(* Tombstones stay fewer than the floor or than the live entries, so the   *)
(* memory of a map that is filled and emptied for ever is bounded.         *)
THEOREM MemoryBounded == Spec => []TombstonesBounded
<1>1. IInv => TombstonesBounded
  BY DEF IInv
<1>. QED
  BY <1>1, Inductive, PTL

(* A cursor whose hint passes its check is where the binary search would   *)
(* have led it, whatever compactions and clears it slept through.          *)
THEOREM HintsCorrect == Spec => []HintsSound
<1>1. IInv => HintsSound
  <2> SUFFICES ASSUME IInv, NEW c \in Cursors, HintHolds(cursor[c])
               PROVE  cursor[c].hint = Cardinality(Consumed(cursor[c]))
    BY DEF HintsSound, Consumed
  <2>1. cursor[c] \in Iterator
    BY Facts
  <2>. QED
    BY <2>1, LocateExact DEF IInv
<1>. QED
  BY <1>1, Inductive, PTL

-----------------------------------------------------------------------------
(* The list that the slots stand for *)

(* The definition of data, of any slots and any next id.                   *)
DataOf(s, n) ==
    [m \in 1 .. n |-> IF \E i \in DOMAIN s : s[i].id = m - 1
                      THEN s[CHOOSE i \in DOMAIN s : s[i].id = m - 1].entry
                      ELSE None]

Ascending(s, n) ==
    /\ s \in Seq(Slot) /\ n \in Nat
    /\ \A i, j \in DOMAIN s : i < j => s[i].id < s[j].id
    /\ \A i \in DOMAIN s : s[i].id < n

LEMMA DataProperties ==
    ASSUME NEW s, NEW n, Ascending(s, n)
    PROVE  /\ DataOf(s, n) \in [1 .. n -> Entry \cup {None}]
           /\ \A i \in DOMAIN s : /\ s[i].id \in Nat /\ s[i].id + 1 \in 1 .. n
                                  /\ DataOf(s, n)[s[i].id + 1] = s[i].entry
           /\ \A m \in 1 .. n : \/ \E i \in DOMAIN s : m = s[i].id + 1
                                \/ DataOf(s, n)[m] = None
<1>1. /\ n \in Nat /\ DOMAIN s = 1 .. Len(s) /\ Len(s) \in Nat
      /\ \A i \in DOMAIN s : /\ s[i].id \in Nat /\ s[i].id + 1 \in 1 .. n
                             /\ s[i].entry \in Entry \cup {None}
  <2>1. /\ s \in Seq(Slot) /\ n \in Nat /\ DOMAIN s = 1 .. Len(s) /\ Len(s) \in Nat
    BY LenProperties DEF Ascending
  <2>2. \A i \in DOMAIN s : s[i] \in Slot /\ s[i].id < n
    BY <2>1, ElementOfSeq DEF Ascending
  <2>. QED
    BY <2>1, <2>2 DEF Slot
<1>2. \A i, j \in DOMAIN s : s[i].id = s[j].id => i = j
  <2> TAKE i, j \in DOMAIN s
  <2>1. i < j \/ j < i \/ i = j
    BY <1>1
  <2>. QED
    BY <1>1, <2>1 DEF Ascending
<1>3. ASSUME NEW i \in DOMAIN s PROVE DataOf(s, n)[s[i].id + 1] = s[i].entry
  <2>1. s[i].id + 1 \in 1 .. n /\ (s[i].id + 1) - 1 = s[i].id
    BY <1>1
  <2>2. (CHOOSE j \in DOMAIN s : s[j].id = s[i].id) = i
    BY <1>2
  <2>. QED
    BY <2>1, <2>2 DEF DataOf
<1>4. ASSUME NEW m \in 1 .. n
      PROVE  (\E i \in DOMAIN s : m = s[i].id + 1) \/ DataOf(s, n)[m] = None
  <2>1. CASE \E i \in DOMAIN s : s[i].id = m - 1
    BY <1>1, <2>1
  <2>2. CASE ~\E i \in DOMAIN s : s[i].id = m - 1
    BY <2>2 DEF DataOf
  <2>. QED
    BY <2>1, <2>2
<1>5. DataOf(s, n) \in [1 .. n -> Entry \cup {None}]
  <2>1. \A m \in 1 .. n : DataOf(s, n)[m] \in Entry \cup {None}
    BY <1>1, <1>3, <1>4
  <2>2. DataOf(s, n) = [m \in 1 .. n |-> DataOf(s, n)[m]]
    BY DEF DataOf
  <2>. QED
    BY <2>1, <2>2
<1>. QED
  BY <1>1, <1>3, <1>4, <1>5

(* Tombstones say nothing: slots with the same live ones are one list.     *)
LEMMA SameData ==
    ASSUME NEW s, NEW t, NEW n, Ascending(s, n), Ascending(t, n),
           \A i \in LiveSlots(s) : \E j \in LiveSlots(t) : t[j] = s[i],
           \A j \in LiveSlots(t) : \E i \in LiveSlots(s) : t[j] = s[i]
    PROVE  DataOf(s, n) = DataOf(t, n)
<1>1. ASSUME NEW m \in 1 .. n, DataOf(s, n)[m] # None
      PROVE  DataOf(t, n)[m] = DataOf(s, n)[m]
  <2>1. PICK i \in DOMAIN s : m = s[i].id + 1
    BY <1>1, DataProperties
  <2>2. DataOf(s, n)[m] = s[i].entry /\ i \in LiveSlots(s)
    BY <1>1, <2>1, DataProperties DEF LiveSlots
  <2>3. PICK j \in LiveSlots(t) : t[j] = s[i]
    BY <2>2
  <2>. QED
    BY <2>1, <2>2, <2>3, DataProperties DEF LiveSlots
<1>2. ASSUME NEW m \in 1 .. n, DataOf(t, n)[m] # None
      PROVE  DataOf(s, n)[m] = DataOf(t, n)[m]
  <2>1. PICK j \in DOMAIN t : m = t[j].id + 1
    BY <1>2, DataProperties
  <2>2. DataOf(t, n)[m] = t[j].entry /\ j \in LiveSlots(t)
    BY <1>2, <2>1, DataProperties DEF LiveSlots
  <2>3. PICK i \in LiveSlots(s) : t[j] = s[i]
    BY <2>2
  <2>. QED
    BY <2>1, <2>2, <2>3, DataProperties DEF LiveSlots
<1>3. \A m \in 1 .. n : DataOf(s, n)[m] = DataOf(t, n)[m]
  BY <1>1, <1>2
<1>4. DataOf(s, n) = [m \in 1 .. n |-> DataOf(s, n)[m]]
  BY DEF DataOf
<1>5. DataOf(t, n) = [m \in 1 .. n |-> DataOf(t, n)[m]]
  BY DEF DataOf
<1>. QED
  BY <1>3, <1>4, <1>5, Zenon

(* An entry replaced or taken out changes one place of the list.           *)
LEMMA DataReplaced ==
    ASSUME NEW s, NEW n, Ascending(s, n), NEW p \in DOMAIN s, NEW e \in Entry \cup {None}
    PROVE  /\ Ascending(WithEntry(s, p, e), n)
           /\ DataOf(WithEntry(s, p, e), n) = [DataOf(s, n) EXCEPT ![s[p].id + 1] = e]
<1> DEFINE t == WithEntry(s, p, e)
           D == DataOf(s, n)
<1>1. s \in Seq(Slot) /\ n \in Nat
  BY DEF Ascending
<1>2. /\ t \in Seq(Slot) /\ DOMAIN t = DOMAIN s
      /\ \A i \in DOMAIN s : /\ t[i].id = s[i].id
                             /\ t[i].entry = IF i = p THEN e ELSE s[i].entry
  BY <1>1, EntryReplaced
<1> HIDE DEF t
<1>3. Ascending(t, n)
  BY <1>1, <1>2 DEF Ascending
<1>4. ASSUME NEW m \in 1 .. n
      PROVE  DataOf(t, n)[m] = IF m = s[p].id + 1 THEN e ELSE D[m]
  <2>1. CASE \E i \in DOMAIN s : m = s[i].id + 1
    <3>1. PICK i \in DOMAIN s : m = s[i].id + 1
      BY <2>1
    <3>2. D[m] = s[i].entry /\ DataOf(t, n)[m] = t[i].entry
      BY <1>2, <1>3, <3>1, DataProperties
    <3>3. m = s[p].id + 1 <=> i = p
      <4>1. \A j \in DOMAIN s : s[j].id \in Nat /\ j \in Nat
        BY <1>1, DataProperties, LenProperties
      <4>2. s[i].id = s[p].id => i = p
        BY <4>1 DEF Ascending
      <4>. QED
        BY <3>1, <4>1, <4>2
    <3>. QED
      BY <1>2, <3>2, <3>3
  <2>2. CASE ~\E i \in DOMAIN s : m = s[i].id + 1
    <3>1. D[m] = None /\ m # s[p].id + 1
      BY <2>2, DataProperties
    <3>2. ~\E i \in DOMAIN t : m = t[i].id + 1
      BY <1>2, <2>2
    <3>3. DataOf(t, n)[m] = None
      BY <1>3, <3>2, DataProperties
    <3>. QED
      BY <3>1, <3>3
  <2>. QED
    BY <2>1, <2>2
<1>5. DataOf(t, n) = [m \in 1 .. n |-> DataOf(t, n)[m]]
  BY DEF DataOf
<1>6. D = [m \in 1 .. n |-> D[m]]
  BY DEF DataOf
<1> HIDE DEF D
<1>7. [D EXCEPT ![s[p].id + 1] = e] = [m \in 1 .. n |-> IF m = s[p].id + 1 THEN e ELSE D[m]]
  BY <1>6
<1>8. DataOf(t, n) = [D EXCEPT ![s[p].id + 1] = e]
  BY <1>4, <1>5, <1>7
<1>. QED
  BY <1>3, <1>8 DEF t, D

-----------------------------------------------------------------------------
(* The Map implements its specification *)

LEMMA ListOfSlots ==
    ASSUME IInv
    PROVE  /\ Ascending(slots, next_id) /\ data = DataOf(slots, next_id)
           /\ data \in Seq(Entry \cup {None}) /\ Len(data) = next_id
           /\ DOMAIN data = 1 .. next_id
           /\ \A i \in DOMAIN slots : /\ slots[i].id + 1 \in DOMAIN data
                                      /\ data[slots[i].id + 1] = slots[i].entry
           /\ \A m \in DOMAIN data : data[m] # None =>
                  \E i \in LiveSlots(slots) : m = slots[i].id + 1
<1>1. Ascending(slots, next_id)
  BY Facts DEF Ascending, IInv, SlotsSorted
<1>2. data = DataOf(slots, next_id)
  BY DEF data, DataOf
<1>3. next_id \in Nat /\ data \in [1 .. next_id -> Entry \cup {None}]
  BY <1>1, <1>2, DataProperties, Facts
<1>4. /\ data \in Seq(Entry \cup {None}) /\ Len(data) = next_id
      /\ DOMAIN data = 1 .. next_id
  BY <1>3, SeqDef, LenProperties
<1>5. \A i \in DOMAIN slots : /\ slots[i].id + 1 \in DOMAIN data
                              /\ data[slots[i].id + 1] = slots[i].entry
  BY <1>1, <1>2, <1>4, DataProperties
<1>6. ASSUME NEW m \in DOMAIN data, data[m] # None
      PROVE  \E i \in LiveSlots(slots) : m = slots[i].id + 1
  <2>1. PICK i \in DOMAIN slots : m = slots[i].id + 1
    BY <1>1, <1>2, <1>4, <1>6, DataProperties
  <2>. QED
    BY <1>5, <1>6, <2>1 DEF LiveSlots
<1>. QED
  BY <1>1, <1>2, <1>4, <1>5, <1>6

(* The places of a key are that of the slot its index points at.           *)
LEMMA PlacesOfKey ==
    ASSUME IInv, NEW k \in Keys
    PROVE  /\ Abstract!Has(k) <=> index[k] # None
           /\ index[k] # None => slots[index[k]].id + 1 \in Abstract!Places(k)
<1>1. ASSUME index[k] # None
      PROVE  slots[index[k]].id + 1 \in Abstract!Places(k)
  <2>1. /\ index[k] \in DOMAIN slots /\ slots[index[k]].entry # None
        /\ slots[index[k]].entry.key = k
    BY <1>1, Facts DEF LiveSlots
  <2>. QED
    BY <2>1, ListOfSlots DEF Abstract!Places
<1>2. ASSUME NEW m \in Abstract!Places(k) PROVE index[k] # None
  <2>1. m \in DOMAIN data /\ data[m] # None /\ data[m].key = k
    BY DEF Abstract!Places
  <2>2. PICK i \in LiveSlots(slots) : m = slots[i].id + 1
    BY <2>1, ListOfSlots
  <2>3. slots[i].entry.key = k /\ index[k] = i /\ i \in Nat
    BY <2>1, <2>2, ListOfSlots, Facts DEF LiveSlots
  <2>. QED
    BY <2>3, NoneAssumption
<1>. QED
  BY <1>1, <1>2 DEF Abstract!Has

LEMMA OverwriteImplements ==
    ASSUME IInv, NEW k \in Keys, NEW v \in Values, Overwrite(k, v)
    PROVE  Abstract!Set(k, v)
<1> DEFINE p == index[k]
           m == slots[p].id + 1
           e == [slots[p].entry EXCEPT !.value = v]
<1>1. /\ slots \in Seq(Slot) /\ p \in LiveSlots(slots) /\ p # None
      /\ p \in DOMAIN slots /\ slots[p].entry \in Entry
  BY Facts DEF Overwrite, LiveSlots
<1>2. e \in Entry \cup {None}
  BY <1>1 DEF Entry
<1>3. /\ slots' = WithEntry(slots, p, e) /\ next_id' = next_id
      /\ cursor' = cursor
  BY DEF Overwrite, WithEntry
<1> HIDE DEF p, e
<1>4. DataOf(WithEntry(slots, p, e), next_id) = [DataOf(slots, next_id) EXCEPT ![m] = e]
  <2>1. Ascending(slots, next_id)
    BY ListOfSlots
  <2>. QED
    BY <1>1, <1>2, <2>1, DataReplaced
<1>5. data' = DataOf(slots', next_id')
  BY DEF data, DataOf
<1>6. data' = [data EXCEPT ![m] = e] /\ data[m] = slots[p].entry
  BY <1>1, <1>3, <1>4, <1>5, ListOfSlots
<1>7. data' = [data EXCEPT ![m].value = v]
  BY <1>6 DEF e
<1>8. Abstract!Has(k) /\ m \in Abstract!Places(k)
  BY <1>1, PlacesOfKey DEF p
<1>9. iters' = iters
  BY <1>3 DEF iters
<1>. QED
  BY <1>7, <1>8, <1>9 DEF Abstract!Set

LEMMA InsertImplements ==
    ASSUME IInv, NEW k \in Keys, NEW v \in Values, Insert(k, v)
    PROVE  Abstract!Set(k, v)
<1> DEFINE e == [key |-> k, value |-> v]
           new == [id |-> next_id, entry |-> e]
<1>1. /\ index[k] = None /\ slots' = Append(slots, new) /\ next_id' = next_id + 1
      /\ cursor' = cursor
  BY DEF Insert
<1>2. e \in Entry \cup {None} /\ new \in Slot /\ slots \in Seq(Slot) /\ next_id \in Nat
  BY Facts DEF Entry, Slot
<1>3. IInv'
  BY InsertPreserves
<1>4. /\ Len(slots') = Len(slots) + 1 /\ Len(slots) \in Nat
      /\ DOMAIN slots = 1 .. Len(slots) /\ DOMAIN slots' = 1 .. Len(slots) + 1
      /\ slots'[Len(slots) + 1] = new
      /\ \A i \in DOMAIN slots : slots'[i] = slots[i]
  BY <1>1, <1>2, AppendProperties, LenProperties
<1>5. /\ Ascending(slots', next_id') /\ data' = DataOf(slots', next_id')
  <2>1. data' = DataOf(slots', next_id')
    BY DEF data, DataOf
  <2>2. Ascending(slots', next_id')
    BY <1>3 DEF IInv, TypeOK, SlotsSorted, Ascending, Slot, Entry
  <2>. QED
    BY <2>1, <2>2
<1>6. /\ DOMAIN data = 1 .. next_id /\ data \in Seq(Entry \cup {None}) /\ Len(data) = next_id
      /\ data = DataOf(slots, next_id) /\ Ascending(slots, next_id)
  BY ListOfSlots
<1>7. data'[next_id + 1] = e
  BY <1>4, <1>5, DataProperties
<1>8. ASSUME NEW m \in 1 .. next_id PROVE data'[m] = data[m]
  <2>0. m \in 1 .. next_id' /\ m # next_id + 1
    BY <1>1, <1>2
  <2>1. CASE \E i \in DOMAIN slots : m = slots[i].id + 1
    <3>1. PICK i \in DOMAIN slots : m = slots[i].id + 1
      BY <2>1
    <3>2. i \in DOMAIN slots' /\ slots'[i] = slots[i]
      BY <1>4
    <3>3. data[m] = slots[i].entry
      BY <1>6, <3>1, DataProperties
    <3>4. data'[m] = slots'[i].entry
      BY <1>5, <3>1, <3>2, DataProperties
    <3>. QED
      BY <3>2, <3>3, <3>4
  <2>2. CASE ~\E i \in DOMAIN slots : m = slots[i].id + 1
    <3>1. data[m] = None
      BY <1>6, <2>2, DataProperties
    <3>2. ~\E i \in DOMAIN slots' : m = slots'[i].id + 1
      BY <1>4, <2>0, <2>2
    <3>3. data'[m] = None
      BY <1>5, <2>0, <3>2, DataProperties
    <3>. QED
      BY <3>1, <3>3
  <2>. QED
    BY <2>1, <2>2
<1>9. data' = Append(data, e)
  <2>1. /\ DOMAIN Append(data, e) = 1 .. next_id + 1
        /\ Append(data, e)[next_id + 1] = e
        /\ \A m \in 1 .. next_id : Append(data, e)[m] = data[m]
        /\ Append(data, e) \in Seq(Entry \cup {None}) /\ Len(Append(data, e)) = next_id + 1
    BY <1>2, <1>6, AppendProperties, LenProperties
  <2>2. Append(data, e) = [m \in 1 .. next_id + 1 |-> Append(data, e)[m]]
    BY <2>1, LenProperties
  <2>3. data' = [m \in 1 .. next_id + 1 |-> data'[m]]
    BY <1>1, <1>5 DEF DataOf
  <2>4. \A m \in 1 .. next_id + 1 : data'[m] = Append(data, e)[m]
    <3> TAKE m \in 1 .. next_id + 1
    <3>1. m \in 1 .. next_id \/ m = next_id + 1
      BY <1>2
    <3>. QED
      BY <1>7, <1>8, <2>1, <3>1
  <2>. QED
    BY <2>2, <2>3, <2>4, Zenon
<1>10. ~Abstract!Has(k)
  BY <1>1, PlacesOfKey
<1>11. iters' = iters
  BY <1>1 DEF iters
<1>. QED
  BY <1>9, <1>10, <1>11 DEF Abstract!Set

LEMMA DeleteImplements ==
    ASSUME IInv, NEW k \in Keys, Delete(k)
    PROVE  Abstract!Delete(k)
<1> DEFINE p == index[k]
           m == slots[p].id + 1
           buried == BuriedSlots(k)
<1>1. /\ p # None /\ next_id' = next_id /\ cursor' = cursor
      /\ \/ slots' = buried
         \/ slots' = Retain(buried)
  BY DEF Delete, BuriedSlots, WithEntry
<1>2. /\ p \in DOMAIN slots /\ Ascending(slots, next_id)
      /\ data = DataOf(slots, next_id)
  BY <1>1, Facts, ListOfSlots DEF LiveSlots
<1>3. /\ Ascending(buried, next_id)
      /\ DataOf(buried, next_id) = [data EXCEPT ![m] = None]
  <2>1. None \in Entry \cup {None}
    OBVIOUS
  <2> HIDE DEF p
  <2>2. /\ Ascending(WithEntry(slots, p, None), next_id)
        /\ DataOf(WithEntry(slots, p, None), next_id)
           = [DataOf(slots, next_id) EXCEPT ![slots[p].id + 1] = None]
    BY <1>2, <2>1, DataReplaced
  <2>. QED
    BY <1>2, <2>2 DEF BuriedSlots, p
<1>4. IInv'
  BY DeletePreserves
<1>5. Ascending(slots', next_id')
  BY <1>4 DEF IInv, TypeOK, SlotsSorted, Ascending, Slot, Entry
<1>6. DataOf(slots', next_id) = DataOf(buried, next_id)
  <2>1. CASE slots' = buried
    BY <2>1
  <2>2. CASE slots' = Retain(buried)
    <3>1. buried \in Seq(Slot)
      BY <1>3 DEF Ascending
    <3>2. /\ \A i \in LiveSlots(buried) :
                 \E j \in DOMAIN slots' : slots'[j] = buried[i]
          /\ \A j \in DOMAIN slots' :
                 \E i \in LiveSlots(buried) : slots'[j] = buried[i]
      BY <2>2, <3>1, RetainProperties
    <3>3. /\ \A i \in LiveSlots(buried) :
                 \E j \in LiveSlots(slots') : slots'[j] = buried[i]
          /\ \A j \in LiveSlots(slots') :
                 \E i \in LiveSlots(buried) : slots'[j] = buried[i]
      BY <3>2 DEF LiveSlots
    <3> HIDE DEF buried
    <3>. QED
      BY <1>1, <1>3, <1>5, <3>3, SameData
  <2>. QED
    BY <1>1, <2>1, <2>2
<1>7. data' = [data EXCEPT ![m] = None]
  <2>1. data' = DataOf(slots', next_id')
    BY DEF data, DataOf
  <2>. QED
    BY <1>1, <1>3, <1>6, <2>1
<1>8. m \in Abstract!Places(k)
  BY <1>1, PlacesOfKey
<1>9. iters' = iters
  BY <1>1 DEF iters
<1>. QED
  BY <1>7, <1>8, <1>9 DEF Abstract!Delete

LEMMA ClearImplements ==
    ASSUME IInv, Clear
    PROVE  Abstract!Clear
<1>1. slots' = <<>> /\ next_id' = next_id /\ cursor' = cursor
  BY DEF Clear
<1>2. DOMAIN data = 1 .. next_id
  BY ListOfSlots
<1>3. DOMAIN slots' = {}
  BY <1>1, EmptySeq
<1>4. data' = [m \in 1 .. next_id |-> None]
  BY <1>1, <1>3 DEF data
<1>5. iters' = iters
  BY <1>1 DEF iters
<1>. QED
  BY <1>2, <1>4, <1>5 DEF Abstract!Clear

LEMMA OpenImplements ==
    ASSUME IInv, NEW c \in Cursors, Open(c)
    PROVE  Abstract!Open(c)
<1>1. /\ cursor' = [cursor EXCEPT ![c] = [next_id |-> 0, hint |-> 0, done |-> FALSE]]
      /\ slots' = slots /\ next_id' = next_id
  BY DEF Open
<1>2. cursor \in [Cursors -> Iterator]
  BY Facts
<1>3. iters' = [iters EXCEPT ![c] = [at |-> 1, done |-> FALSE]]
  <2> DEFINE q == [next_id |-> 0, hint |-> 0, done |-> FALSE]
             place(r) == [at |-> IF r.done THEN 0 ELSE r.next_id + 1, done |-> r.done]
  <2>1. place(q) = [at |-> 1, done |-> FALSE]
    OBVIOUS
  <2>2. iters = [d \in Cursors |-> place(cursor[d])]
    BY DEF iters
  <2>3. iters' = [d \in Cursors |-> place(cursor'[d])]
    BY DEF iters
  <2>4. cursor' = [cursor EXCEPT ![c] = q]
    BY <1>1
  <2> HIDE DEF place, q
  <2>. QED
    BY <1>2, <2>1, <2>2, <2>3, <2>4
<1>4. data' = data
  BY <1>1 DEF data
<1>. QED
  BY <1>3, <1>4 DEF Abstract!Open

LEMMA StepImplements ==
    ASSUME IInv, NEW c \in Cursors, Step(c)
    PROVE  Abstract!Step(c)
<1> DEFINE q == cursor[c]
           ahead == {i \in LiveSlots(slots) : slots[i].id >= q.next_id}
<1>1. /\ ~q.done /\ slots' = slots /\ next_id' = next_id
      /\ \/ \E i \in ahead :
                /\ \A j \in ahead : i <= j
                /\ cursor' = [cursor EXCEPT ![c] =
                       [next_id |-> slots[i].id + 1, hint |-> i, done |-> FALSE]]
         \/ /\ ahead = {}
            /\ \E r \in Iterator : r.done /\ cursor' = [cursor EXCEPT ![c] = r]
  BY StepProperties
<1>2. cursor \in [Cursors -> Iterator] /\ q \in Iterator
  BY Facts
<1>3. iters[c] = [at |-> q.next_id + 1, done |-> FALSE]
  BY <1>1, <1>2 DEF iters, Iterator
<1>4. /\ \A i \in ahead : slots[i].id + 1 \in Abstract!Ahead(c)
      /\ \A m \in Abstract!Ahead(c) : \E i \in ahead : m = slots[i].id + 1
  <2>1. ASSUME NEW i \in ahead PROVE slots[i].id + 1 \in Abstract!Ahead(c)
    <3>1. /\ i \in DOMAIN slots /\ slots[i].entry # None
          /\ slots[i].id \in Nat /\ q.next_id \in Nat /\ slots[i].id >= q.next_id
      BY <1>2, Facts DEF LiveSlots, Slot, Iterator
    <3>2. /\ slots[i].id + 1 \in DOMAIN data
          /\ data[slots[i].id + 1] = slots[i].entry
      BY <3>1, ListOfSlots
    <3>. QED
      BY <1>3, <3>1, <3>2 DEF Abstract!Ahead
  <2>2. ASSUME NEW m \in Abstract!Ahead(c)
        PROVE  \E i \in ahead : m = slots[i].id + 1
    <3>1. m \in DOMAIN data /\ m >= q.next_id + 1 /\ data[m] # None
      BY <1>3 DEF Abstract!Ahead
    <3>2. PICK i \in LiveSlots(slots) : m = slots[i].id + 1
      BY <3>1, ListOfSlots
    <3>3. slots[i].id \in Nat /\ q.next_id \in Nat
      BY <1>2, Facts DEF LiveSlots, Slot, Iterator
    <3>. QED
      BY <3>1, <3>2, <3>3
  <2>. QED
    BY <2>1, <2>2
<1>5. ~iters[c].done
  BY <1>3
<1>6. data' = data
  BY <1>1 DEF data
<1>7. ASSUME NEW i \in ahead, \A j \in ahead : i <= j,
             cursor' = [cursor EXCEPT ![c] =
                 [next_id |-> slots[i].id + 1, hint |-> i, done |-> FALSE]]
      PROVE  /\ Abstract!Ahead(c) # {}
             /\ \E n \in Abstract!Ahead(c) :
                    /\ \A j \in Abstract!Ahead(c) : n <= j
                    /\ iters' = [iters EXCEPT ![c].at = n + 1]
  <2> DEFINE n == slots[i].id + 1
  <2>1. n \in Abstract!Ahead(c)
    BY <1>4
  <2>2. ASSUME NEW m \in Abstract!Ahead(c) PROVE n <= m
    <3>1. PICK j \in ahead : m = slots[j].id + 1
      BY <1>4
    <3>2. /\ i \in DOMAIN slots /\ j \in DOMAIN slots /\ i \in Nat /\ j \in Nat
          /\ slots[i].id \in Nat /\ slots[j].id \in Nat
      BY Facts DEF LiveSlots, Slot
    <3>3. i < j \/ i = j
      BY <1>7, <3>2
    <3>4. slots[i].id <= slots[j].id
      BY <3>2, <3>3 DEF IInv, SlotsSorted
    <3>. QED
      BY <3>1, <3>2, <3>4
  <2>3. iters' = [iters EXCEPT ![c] = [at |-> n + 1, done |-> FALSE]]
    BY <1>2, <1>7 DEF iters
  <2>4. iters' = [iters EXCEPT ![c].at = n + 1]
    <3>1. \A r \in [at : Nat, done : BOOLEAN], y \in Nat :
              [r EXCEPT !.at = y] = [at |-> y, done |-> r.done]
      OBVIOUS
    <3>2. n \in Nat /\ q.next_id \in Nat
      BY <1>2, Facts DEF LiveSlots, Slot, Iterator
    <3> HIDE DEF n
    <3>3. iters[c] \in [at : Nat, done : BOOLEAN] /\ iters[c].done = FALSE /\ n + 1 \in Nat
      BY <1>3, <3>2
    <3>4. [iters[c] EXCEPT !.at = n + 1] = [at |-> n + 1, done |-> FALSE]
      BY <3>1, <3>3
    <3>. QED
      BY <2>3, <3>4
  <2>. QED
    BY <2>1, <2>2, <2>4
<1>8. ASSUME ahead = {}, NEW r \in Iterator, r.done, cursor' = [cursor EXCEPT ![c] = r]
      PROVE  /\ Abstract!Ahead(c) = {}
             /\ iters' = [iters EXCEPT ![c] = [at |-> 0, done |-> TRUE]]
  <2>1. Abstract!Ahead(c) = {}
    BY <1>4, <1>8
  <2>2. r.done = TRUE
    BY <1>8 DEF Iterator
  <2>3. iters' = [iters EXCEPT ![c] = [at |-> 0, done |-> TRUE]]
    BY <1>2, <1>8, <2>2 DEF iters
  <2>. QED
    BY <2>1, <2>3
<1>. QED
  BY <1>1, <1>5, <1>6, <1>7, <1>8 DEF Abstract!Step

LEMMA InitImplements == Init => Abstract!Init
<1> SUFFICES ASSUME Init PROVE Abstract!Init
  OBVIOUS
<1>1. data = <<>>
  <2>1. IInv /\ next_id = 0
    BY InitIInv DEF Init
  <2>2. data \in Seq(Entry \cup {None}) /\ Len(data) = 0
    BY <2>1, ListOfSlots
  <2>. QED
    BY <2>2, EmptySeq
<1>2. iters = [c \in Cursors |-> [at |-> 1, done |-> FALSE]]
  BY DEF Init, iters
<1>. QED
  BY <1>1, <1>2 DEF Abstract!Init

LEMMA NextImplements ==
    ASSUME IInv, [Next]_vars
    PROVE  [Abstract!Next]_(Abstract!mapVars)
<1>1. ASSUME NEW k \in Keys, NEW v \in Values, Set(k, v) PROVE Abstract!Set(k, v)
  BY <1>1, OverwriteImplements, InsertImplements DEF Set
<1>2. ASSUME NEW k \in Keys, Delete(k) PROVE Abstract!Delete(k)
  BY <1>2, DeleteImplements
<1>3. ASSUME Clear PROVE Abstract!Clear
  BY <1>3, ClearImplements
<1>4. ASSUME NEW c \in Cursors, Open(c) \/ Step(c)
      PROVE  Abstract!Open(c) \/ Abstract!Step(c)
  BY <1>4, OpenImplements, StepImplements
<1>5. ASSUME UNCHANGED vars PROVE UNCHANGED Abstract!mapVars
  BY <1>5 DEF vars, Abstract!mapVars, data, iters
<1>. QED
  BY <1>1, <1>2, <1>3, <1>4, <1>5 DEF Next, Abstract!Next

(* The slots, with their tombstones, their compactions and the cursors     *)
(* that none of it is told to, are a JavaScript Map: new keys at the end,  *)
(* overwritten ones in place, iterators that skip what is deleted ahead of *)
(* them, see what is appended and never resume after the end.              *)
THEOREM MapImplemented == Spec => ImplementsMap
<1>1. Init => Abstract!Init
  BY InitImplements
<1>2. IInv /\ [Next]_vars => [Abstract!Next]_(Abstract!mapVars)
  BY NextImplements
<1>. QED
  BY <1>1, <1>2, Inductive, PTL DEF Spec, ImplementsMap, Abstract!Spec

-----------------------------------------------------------------------------
(***************************************************************************)
(* The structures built on the map, which see it as the list of its live   *)
(* entries (Entries), and MultiArray, which shares their run.  What holds  *)
(* of each is of its own specification, for any keys and values.           *)
(***************************************************************************)

CONSTANTS MaxSize, MaxDepth, MaxTotal, MaxDrift, Unique, Counts, NaN,
          Indices, Fixed, Capacity

VARIABLES items, other, size, other_size, factories, overwrites, walk, dimension, drift,
          storage, pointers, tails, lengths, arrivals

Bi == INSTANCE BiMap WITH Members <- Keys, inverse <- other, inverse_size <- other_size

Pairing == INSTANCE BijectionSpec WITH
    Members <- Keys, pairs <- Bi!Pairs, orders <- Bi!Orders, sizes <- Bi!Sizes

Default == INSTANCE DefaultMap WITH MapKeys <- Keys, Undefined <- None

Buckets == INSTANCE MultiMap WITH MapKeys <- Keys

Multi == INSTANCE MultiSet WITH Items <- Keys

Array == INSTANCE MultiArray

-----------------------------------------------------------------------------
(* The entries of a map, as the structures over it see them.               *)

KeysOf(m) == {m[n].key : n \in DOMAIN m}

PlaceIn(m, k) == CHOOSE n \in DOMAIN m : m[n].key = k

ValueIn(m, k) == m[PlaceIn(m, k)].value

Stored(m, k, v) ==
    IF k \in KeysOf(m) THEN [m EXCEPT ![PlaceIn(m, k)].value = v]
    ELSE Append(m, [key |-> k, value |-> v])

Without(m, i) == SubSeq(m, 1, i - 1) \o SubSeq(m, i + 1, Len(m))

Dropped(m, k) == IF k \in KeysOf(m) THEN Without(m, PlaceIn(m, k)) ELSE m

Maps(K, V) ==
    {m \in Seq([key : K, value : V]) : \A i, j \in DOMAIN m : m[i].key = m[j].key => i = j}

Related(m, k, v) == \E n \in DOMAIN m : m[n].key = k /\ m[n].value = v

Precedes(m, j, k) == \E x, y \in DOMAIN m : x < y /\ m[x].key = j /\ m[y].key = k

LEMMA Cut ==
    ASSUME NEW S, NEW m \in Seq(S), NEW place \in 1 .. Len(m)
    PROVE  /\ Without(m, place) \in Seq(S)
           /\ Len(Without(m, place)) = Len(m) - 1
           /\ \A i \in 1 .. Len(m) - 1 : Without(m, place)[i] = m[IF i < place THEN i ELSE i + 1]
<1> DEFINE front == SubSeq(m, 1, place - 1)
           rest == SubSeq(m, place + 1, Len(m))
           low == place - 1
           high == place + 1
           len == Len(m)
<1>1. len \in Nat /\ place \in Nat /\ place >= 1 /\ place <= len /\ low \in Int /\ high \in Int
      /\ low = place - 1 /\ high = place + 1 /\ \A i \in 1 .. len : m[i] \in S
  OBVIOUS
<1>2. front = SubSeq(m, 1, low) /\ rest = SubSeq(m, high, len) /\ Without(m, place) = front \o rest
  BY DEF Without
<1> HIDE DEF front, rest, low, high, len
<1>3. /\ front \in Seq(S) /\ Len(front) = place - 1
      /\ \A i \in 1 .. place - 1 : front[i] = m[i]
  <2>1. \A i \in 1 .. low : m[i] \in S
    BY <1>1
  <2>2. /\ front \in Seq(S) /\ Len(front) = IF 1 <= low THEN low - 1 + 1 ELSE 0
        /\ \A i \in 1 .. low - 1 + 1 : front[i] = m[1 + i - 1]
    BY <1>1, <1>2, <2>1, SubSeqProperties
  <2> QED BY <1>1, <2>2
<1>4. /\ rest \in Seq(S) /\ Len(rest) = len - place
      /\ \A i \in 1 .. len - place : rest[i] = m[place + i]
  <2>1. \A i \in high .. len : m[i] \in S
    BY <1>1
  <2>2. /\ rest \in Seq(S) /\ Len(rest) = IF high <= len THEN len - high + 1 ELSE 0
        /\ \A i \in 1 .. len - high + 1 : rest[i] = m[high + i - 1]
    BY <1>1, <1>2, <2>1, SubSeqProperties
  <2> QED BY <1>1, <2>2
<1>5. /\ front \o rest \in Seq(S) /\ Len(front \o rest) = Len(front) + Len(rest)
      /\ \A i \in 1 .. Len(front) + Len(rest) :
             (front \o rest)[i] = IF i <= Len(front) THEN front[i] ELSE rest[i - Len(front)]
  BY <1>3, <1>4, ConcatProperties
<1>6. /\ Len(front \o rest) = len - 1
      /\ \A i \in 1 .. len - 1 : (front \o rest)[i] = m[IF i < place THEN i ELSE i + 1]
  <2>1. Len(front) + Len(rest) = len - 1
    BY <1>1, <1>3, <1>4
  <2>2. ASSUME NEW i \in 1 .. len - 1
        PROVE  (front \o rest)[i] = m[IF i < place THEN i ELSE i + 1]
    <3>1. CASE i < place
      <4>1. i \in 1 .. place - 1
        BY <1>1, <3>1
      <4> QED BY <1>1, <1>3, <1>5, <2>1, <3>1, <4>1
    <3>2. CASE ~(i < place)
      <4>1. i - low \in 1 .. len - place /\ place + (i - low) = i + 1 /\ ~(i <= low)
        BY <1>1, <3>2
      <4>2. rest[i - low] = m[i + 1]
        BY <1>4, <4>1
      <4> QED BY <1>1, <1>3, <1>5, <2>1, <3>2, <4>1, <4>2
    <3> QED BY <3>1, <3>2
  <2> QED BY <1>5, <2>1, <2>2
<1> QED BY <1>2, <1>5, <1>6 DEF len

LEMMA Placed ==
    ASSUME NEW K, NEW V, NEW m \in Maps(K, V), NEW k
    PROVE  /\ k \in KeysOf(m) <=> \E n \in DOMAIN m : m[n].key = k
           /\ k \in KeysOf(m) => /\ PlaceIn(m, k) \in DOMAIN m
                                 /\ m[PlaceIn(m, k)].key = k
                                 /\ Related(m, k, ValueIn(m, k))
                                 /\ \A n \in DOMAIN m : m[n].key = k => n = PlaceIn(m, k)
           /\ \A v : Related(m, k, v) => k \in KeysOf(m) /\ v = ValueIn(m, k)
<1>1. k \in KeysOf(m) <=> \E n \in DOMAIN m : m[n].key = k
  BY Zenon DEF KeysOf
<1>2. k \in KeysOf(m) => PlaceIn(m, k) \in DOMAIN m /\ m[PlaceIn(m, k)].key = k
  BY <1>1, Zenon DEF PlaceIn
<1>3. \A i, j \in DOMAIN m : m[i].key = m[j].key => i = j
  BY DEF Maps
<1> QED BY <1>1, <1>2, <1>3 DEF Related, ValueIn

(* What storing does to m, whose outcome is n.                             *)
Stores(m, k, v, n) ==
    /\ KeysOf(n) = KeysOf(m) \cup {k}
    /\ \A j, w : Related(n, j, w) <=> (j = k /\ w = v) \/ (j # k /\ Related(m, j, w))
    /\ \A i, j : Precedes(n, i, j) <=>
                     \/ Precedes(m, i, j)
                     \/ k \notin KeysOf(m) /\ i \in KeysOf(m) /\ j = k
    /\ Len(n) = IF k \in KeysOf(m) THEN Len(m) ELSE Len(m) + 1

LEMMA StoredIs ==
    ASSUME NEW K, NEW V, NEW m \in Maps(K, V), NEW k \in K, NEW v \in V
    PROVE  Stored(m, k, v) \in Maps(K, V) /\ Stores(m, k, v, Stored(m, k, v))
<1> DEFINE new == Stored(m, k, v)
           place == PlaceIn(m, k)
<1>0. m \in Seq([key : K, value : V]) /\ \A i, j \in DOMAIN m : m[i].key = m[j].key => i = j
  BY DEF Maps
<1>1. CASE k \in KeysOf(m)
  <2>1. place \in DOMAIN m /\ m[place].key = k
    BY <1>1, Placed
  <2>2. new = [m EXCEPT ![place].value = v]
    BY <1>1 DEF Stored
  <2>3. /\ new \in Seq([key : K, value : V]) /\ DOMAIN new = DOMAIN m /\ Len(new) = Len(m)
        /\ \A i \in DOMAIN m : new[i].key = m[i].key /\ new[i].value = IF i = place THEN v ELSE m[i].value
    <3> DEFINE S == [key : K, value : V]
               e == [m[place] EXCEPT !.value = v]
    <3>1. \A i \in DOMAIN m : m[i] \in S
      <4>1. m \in Seq(S)
        BY <1>0
      <4> HIDE DEF S
      <4> QED BY <4>1
    <3>2. e \in S /\ e.key = m[place].key /\ e.value = v
      BY <2>1, <3>1
    <3>3. new = [m EXCEPT ![place] = e]
      BY <2>2
    <3> HIDE DEF place, new, e
    <3>4. m \in Seq(S) /\ place \in 1 .. Len(m) /\ DOMAIN m = 1 .. Len(m)
      <4> HIDE DEF S
      <4> QED BY <1>0, <2>1 DEF S
    <3> HIDE DEF S
    <3>5. new \in Seq(S) /\ Len(new) = Len(m)
      BY <3>2, <3>3, <3>4, ExceptSeq
    <3>6. DOMAIN new = DOMAIN m /\ \A i \in DOMAIN m : new[i] = IF i = place THEN e ELSE m[i]
      BY <3>3
    <3> QED BY <3>2, <3>5, <3>6 DEF S
  <2> HIDE DEF new, place
  <2>4. new \in Maps(K, V)
    BY <1>0, <2>3 DEF Maps
  <2>5. KeysOf(new) = KeysOf(m) \cup {k}
    BY <1>1, <2>3 DEF KeysOf
  <2>6. \A j, w : Related(new, j, w) <=> (j = k /\ w = v) \/ (j # k /\ Related(m, j, w))
    BY <1>0, <2>1, <2>3 DEF Related
  <2>7. \A i, j : Precedes(new, i, j) <=> Precedes(m, i, j)
    BY <2>3 DEF Precedes
  <2> QED BY <1>1, <2>3, <2>4, <2>5, <2>6, <2>7 DEF new, Stores
<1>2. CASE k \notin KeysOf(m)
  <2>1. new = Append(m, [key |-> k, value |-> v]) /\ \A i \in DOMAIN m : m[i].key # k
    BY <1>2 DEF Stored, KeysOf
  <2> HIDE DEF new
  <2>2. /\ new \in Seq([key : K, value : V]) /\ Len(new) = Len(m) + 1 /\ Len(m) \in Nat
        /\ DOMAIN m = 1 .. Len(m) /\ DOMAIN new = 1 .. Len(m) + 1
        /\ \A i \in 1 .. Len(m) : new[i] = m[i]
        /\ new[Len(m) + 1].key = k /\ new[Len(m) + 1].value = v
    <3> DEFINE S == [key : K, value : V]
               e == [key |-> k, value |-> v]
    <3>1. e \in S /\ e.key = k /\ e.value = v
      OBVIOUS
    <3> HIDE DEF S, e
    <3>2. m \in Seq(S) /\ new = Append(m, e)
      BY <1>0, <2>1 DEF S, e
    <3>3. /\ new \in Seq(S) /\ Len(new) = Len(m) + 1
          /\ \A i \in 1 .. Len(m) : new[i] = m[i]
          /\ new[Len(m) + 1] = e
      BY <3>1, <3>2, AppendProperties
    <3>4. Len(m) \in Nat /\ DOMAIN m = 1 .. Len(m) /\ DOMAIN new = 1 .. Len(m) + 1
      BY <3>2, <3>3
    <3> QED BY <3>1, <3>3, <3>4 DEF S
  <2>3. new \in Maps(K, V)
    <3>1. \A i, j \in DOMAIN new : new[i].key = new[j].key => i = j
      <4>1. ASSUME NEW i \in DOMAIN new
            PROVE  \/ i \in DOMAIN m /\ new[i].key = m[i].key /\ new[i].key # k
                   \/ i = Len(m) + 1 /\ new[i].key = k
        <5>1. CASE i \in 1 .. Len(m)
          BY <2>1, <2>2, <5>1
        <5>2. CASE i = Len(m) + 1
          BY <2>2, <5>2
        <5> QED BY <2>2, <5>1, <5>2
      <4> QED BY <1>0, <4>1
    <3> QED BY <2>2, <3>1 DEF Maps
  <2>4. KeysOf(new) = KeysOf(m) \cup {k}
    BY <2>2 DEF KeysOf
  <2>5. \A j, w : Related(new, j, w) <=> (j = k /\ w = v) \/ (j # k /\ Related(m, j, w))
    BY <2>1, <2>2 DEF Related
  <2>6. ASSUME NEW i, NEW j
        PROVE  Precedes(new, i, j) <=> Precedes(m, i, j) \/ (i \in KeysOf(m) /\ j = k)
    <3>1. Precedes(m, i, j) => Precedes(new, i, j)
      BY <2>2 DEF Precedes
    <3>2. i \in KeysOf(m) /\ j = k => Precedes(new, i, j)
      <4> SUFFICES ASSUME i \in KeysOf(m), j = k PROVE Precedes(new, i, j)
        OBVIOUS
      <4>1. PICK x \in DOMAIN m : m[x].key = i
        BY DEF KeysOf
      <4>2. x \in DOMAIN new /\ Len(m) + 1 \in DOMAIN new /\ x < Len(m) + 1 /\ new[x].key = i
        BY <2>2, <4>1
      <4> QED BY <2>2, <4>2 DEF Precedes
    <3>3. Precedes(new, i, j) => Precedes(m, i, j) \/ (i \in KeysOf(m) /\ j = k)
      <4> SUFFICES ASSUME NEW x \in DOMAIN new, NEW y \in DOMAIN new, x < y, new[x].key = i, new[y].key = j
                   PROVE  Precedes(m, i, j) \/ (i \in KeysOf(m) /\ j = k)
        BY DEF Precedes
      <4>1. x \in DOMAIN m /\ m[x].key = i
        BY <2>2
      <4>2. CASE y \in DOMAIN m
        <5>1. m[y].key = j
          BY <2>2, <4>2
        <5> QED BY <4>1, <4>2, <5>1 DEF Precedes
      <4>3. CASE y = Len(m) + 1
        BY <2>2, <4>1, <4>3 DEF KeysOf
      <4> QED BY <2>2, <4>2, <4>3
    <3> QED BY <3>1, <3>2, <3>3
  <2>7. \A i, j : Precedes(new, i, j) <=> Precedes(m, i, j) \/ (k \notin KeysOf(m) /\ i \in KeysOf(m) /\ j = k)
    BY <1>2, <2>6, Zenon
  <2>8. Len(new) = Len(m) + 1
    BY <2>2
  <2>9. Len(new) = IF k \in KeysOf(m) THEN Len(m) ELSE Len(m) + 1
    BY <1>2, <2>8
  <2> QED BY <2>3, <2>4, <2>5, <2>7, <2>9, Zenon DEF new, Stores
<1> QED BY <1>1, <1>2

LEMMA DroppedIs ==
    ASSUME NEW K, NEW V, NEW m \in Maps(K, V), NEW k
    PROVE  /\ Dropped(m, k) \in Maps(K, V)
           /\ KeysOf(Dropped(m, k)) = KeysOf(m) \ {k}
           /\ \A j, w : Related(Dropped(m, k), j, w) <=> j # k /\ Related(m, j, w)
           /\ \A i, j : Precedes(Dropped(m, k), i, j) <=> i # k /\ j # k /\ Precedes(m, i, j)
           /\ Len(Dropped(m, k)) = IF k \in KeysOf(m) THEN Len(m) - 1 ELSE Len(m)
<1> DEFINE new == Dropped(m, k)
           place == PlaceIn(m, k)
           back(i) == IF i < place THEN i ELSE i + 1
<1>0. m \in Seq([key : K, value : V]) /\ \A i, j \in DOMAIN m : m[i].key = m[j].key => i = j
  BY DEF Maps
<1>1. CASE k \in KeysOf(m)
  <2>1. place \in DOMAIN m /\ m[place].key = k /\ DOMAIN m = 1 .. Len(m) /\ Len(m) \in Nat
    BY <1>0, <1>1, Placed
  <2>2. new = Without(m, place)
    BY <1>1 DEF Dropped
  <2> HIDE DEF place, new
  <2>3. /\ new \in Seq([key : K, value : V]) /\ Len(new) = Len(m) - 1
        /\ DOMAIN new = 1 .. Len(m) - 1
        /\ \A i \in 1 .. Len(m) - 1 : new[i] = m[back(i)] /\ back(i) \in DOMAIN m
    <3>1. /\ new \in Seq([key : K, value : V]) /\ Len(new) = Len(m) - 1
          /\ \A i \in 1 .. Len(m) - 1 : new[i] = m[back(i)]
      BY <1>0, <2>1, <2>2, Cut
    <3>2. DOMAIN new = 1 .. Len(m) - 1
      BY <2>1, <3>1
    <3>3. \A i \in 1 .. Len(m) - 1 : back(i) \in DOMAIN m
      BY <2>1
    <3> QED BY <3>1, <3>2, <3>3
  <2>4. \A i, j \in DOMAIN new : back(i) = back(j) => i = j
    BY <2>1, <2>3
  <2>5. \A i, j \in DOMAIN new : back(i) < back(j) <=> i < j
    BY <2>1, <2>3
  <2>6. \A n \in DOMAIN m : n # place => \E i \in DOMAIN new : back(i) = n
    <3> TAKE n \in DOMAIN m
    <3> HAVE n # place
    <3>1. CASE n < place
      BY <2>1, <2>3, <3>1
    <3>2. CASE n > place
      <4>1. n - 1 \in DOMAIN new /\ back(n - 1) = n
        BY <2>1, <2>3, <3>2
      <4> QED BY <4>1
    <3> QED BY <2>1, <3>1, <3>2
  <2>7. \A i \in DOMAIN new : back(i) # place
    BY <2>1, <2>3
  <2>8. \A i \in DOMAIN new : new[i] = m[back(i)] /\ back(i) \in DOMAIN m /\ m[back(i)].key # k
    BY <1>0, <2>1, <2>3, <2>7
  <2>9. Len(new) = Len(m) - 1 /\ new \in Seq([key : K, value : V])
    BY <2>3
  <2> HIDE DEF back
  <2>10. new \in Maps(K, V)
    BY <1>0, <2>4, <2>8, <2>9 DEF Maps
  <2>11. KeysOf(new) = KeysOf(m) \ {k}
    BY <2>1, <2>6, <2>8 DEF KeysOf
  <2>12. \A j, w : Related(new, j, w) <=> j # k /\ Related(m, j, w)
    BY <2>1, <2>6, <2>8 DEF Related
  <2>13. ASSUME NEW i, NEW j
         PROVE  Precedes(new, i, j) <=> i # k /\ j # k /\ Precedes(m, i, j)
    BY <2>1, <2>5, <2>6, <2>8 DEF Precedes
  <2> QED BY <1>1, <2>9, <2>10, <2>11, <2>12, <2>13 DEF new
<1>2. CASE k \notin KeysOf(m)
  <2>1. new = m
    BY <1>2 DEF Dropped
  <2>2. \A i \in DOMAIN m : m[i].key # k
    BY <1>2 DEF KeysOf
  <2> HIDE DEF new
  <2>3. KeysOf(new) = KeysOf(m) \ {k}
    BY <1>2, <2>1
  <2> QED BY <1>2, <2>1, <2>2, <2>3 DEF new, Related, Precedes
<1> QED BY <1>1, <1>2

-----------------------------------------------------------------------------
(* A BiMap.                                                                *)

LEMMA BiIs ==
    ASSUME NEW m
    PROVE  /\ Bi!Keys(m) = KeysOf(m)
           /\ \A k : Bi!ValueOf(m, k) = ValueIn(m, k)
           /\ \A k, v : Bi!Put(m, k, v) = Stored(m, k, v)
           /\ \A k : Bi!Drop(m, k) = Dropped(m, k)
  BY DEF Bi!Keys, Bi!PlaceOf, Bi!ValueOf, Bi!Put, Bi!Drop, Bi!RemoveAt,
         KeysOf, PlaceIn, ValueIn, Stored, Dropped, Without

Mirror(m, n) == \A k, v : Related(m, k, v) <=> Related(n, v, k)

(* What BijectionSpec says of the orders: who is in both maps has kept its *)
(* place, and who is new is behind them.                                   *)
OrderKept(m, n) ==
    \A i, j : Precedes(n, i, j) <=>
        \/ Precedes(m, i, j) /\ i \in KeysOf(n) /\ j \in KeysOf(n)
        \/ i \in KeysOf(m) /\ i \in KeysOf(n) /\ j \in KeysOf(n) /\ j \notin KeysOf(m)

LEMMA PrecedesKeys ==
    ASSUME NEW m
    PROVE  \A i, j : Precedes(m, i, j) => i \in KeysOf(m) /\ j \in KeysOf(m)
  BY DEF Precedes, KeysOf

LEMMA LinkIs ==
    ASSUME NEW m \in Maps(Keys, Keys), NEW n \in Maps(Keys, Keys), Mirror(m, n),
           NEW k \in Keys, NEW v \in Keys
    PROVE  LET linked == Bi!Link(m, n, k, v)
           IN  /\ linked.primary \in Maps(Keys, Keys) /\ linked.secondary \in Maps(Keys, Keys)
               /\ \A j, w : Related(linked.primary, j, w) <=>
                                (j = k /\ w = v) \/ (j # k /\ w # v /\ Related(m, j, w))
               /\ Mirror(linked.primary, linked.secondary)
               /\ OrderKept(m, linked.primary) /\ OrderKept(n, linked.secondary)
<1> DEFINE had == k \in KeysOf(m)
           old == ValueIn(m, k)
           freed == IF had THEN Dropped(n, old) ELSE n
           moved == IF had THEN Stored(m, k, v) ELSE m
           taken == v \in KeysOf(freed)
           holder == ValueIn(freed, v)
           clear == IF taken THEN Dropped(moved, holder) ELSE moved
           linked == Bi!Link(m, n, k, v)
<1>1. linked =
          IF had /\ old = v THEN [primary |-> m, secondary |-> n]
          ELSE IF taken /\ holder = k THEN [primary |-> moved, secondary |-> freed]
          ELSE [primary |-> Stored(clear, k, v), secondary |-> Stored(freed, v, k)]
  BY BiIs DEF Bi!Link
<1>2. /\ \A j, w : Related(m, j, w) => j \in KeysOf(m) /\ w = ValueIn(m, j)
      /\ \A j \in KeysOf(m) : Related(m, j, ValueIn(m, j))
  BY Placed
<1>3. /\ \A j, w : Related(n, j, w) => j \in KeysOf(n) /\ w = ValueIn(n, j)
      /\ \A j \in KeysOf(n) : Related(n, j, ValueIn(n, j))
  BY Placed
<1>4. \A j, w : Related(m, j, w) <=> Related(n, w, j)
  BY DEF Mirror
<1>5. /\ \A i, j : Precedes(m, i, j) => i \in KeysOf(m) /\ j \in KeysOf(m)
      /\ \A i, j : Precedes(n, i, j) => i \in KeysOf(n) /\ j \in KeysOf(n)
  BY PrecedesKeys
<1> HIDE DEF linked
<1>6. CASE had /\ old = v
  <2>1. linked.primary = m /\ linked.secondary = n
    BY <1>1, <1>6
  <2>2. \A j, w : Related(m, j, w) <=> (j = k /\ w = v) \/ (j # k /\ w # v /\ Related(m, j, w))
    BY <1>2, <1>3, <1>4, <1>6
  <2>3. OrderKept(m, m) /\ OrderKept(n, n)
    BY <1>5 DEF OrderKept
  <2> QED BY <2>1, <2>2, <2>3 DEF linked
<1>7. CASE ~(had /\ old = v)
  <2> DEFINE gone == Dropped(n, old)
             set == Stored(m, k, v)
             rest == Dropped(moved, holder)
  <2> HIDE DEF had, old, holder, taken
  <2>14. /\ gone \in Maps(Keys, Keys)
         /\ KeysOf(gone) = KeysOf(n) \ {old}
         /\ \A j, w : Related(gone, j, w) <=> j # old /\ Related(n, j, w)
         /\ \A i, j : Precedes(gone, i, j) <=> i # old /\ j # old /\ Precedes(n, i, j)
    BY DroppedIs
  <2>15. /\ set \in Maps(Keys, Keys)
         /\ KeysOf(set) = KeysOf(m) \cup {k}
         /\ \A j, w : Related(set, j, w) <=> (j = k /\ w = v) \/ (j # k /\ Related(m, j, w))
         /\ had => \A i, j : Precedes(set, i, j) <=> Precedes(m, i, j)
    <3>1. /\ set \in Maps(Keys, Keys)
          /\ KeysOf(set) = KeysOf(m) \cup {k}
          /\ \A j, w : Related(set, j, w) <=> (j = k /\ w = v) \/ (j # k /\ Related(m, j, w))
          /\ \A i, j : Precedes(set, i, j) <=>
                            \/ Precedes(m, i, j)
                            \/ k \notin KeysOf(m) /\ i \in KeysOf(m) /\ j = k
      <4>1. set \in Maps(Keys, Keys) /\ Stores(m, k, v, set)
        BY StoredIs
      <4> HIDE DEF set
      <4> QED BY <4>1 DEF Stores
    <3> HIDE DEF set
    <3> QED BY <3>1 DEF had
  <2>16. had => KeysOf(m) \cup {k} = KeysOf(m)
    BY DEF had
  <2> HIDE DEF gone, set
  <2>1. /\ freed \in Maps(Keys, Keys)
        /\ KeysOf(freed) = IF had THEN KeysOf(n) \ {old} ELSE KeysOf(n)
        /\ \A j, w : Related(freed, j, w) <=> (had => j # old) /\ Related(n, j, w)
        /\ \A i, j : Precedes(freed, i, j) <=> (had => i # old /\ j # old) /\ Precedes(n, i, j)
    BY <2>14 DEF gone
  <2>2. /\ moved \in Maps(Keys, Keys)
        /\ KeysOf(moved) = KeysOf(m)
        /\ \A j, w : Related(moved, j, w) <=> (had /\ j = k /\ w = v) \/ ((had => j # k) /\ Related(m, j, w))
        /\ \A i, j : Precedes(moved, i, j) <=> Precedes(m, i, j)
    BY <2>15, <2>16 DEF set
  <2> HIDE DEF freed, moved
  <2>3. taken => Related(freed, v, holder)
    BY <2>1, Placed DEF taken, holder
  <2>4. taken => holder # k
    BY <1>2, <1>4, <1>7, <2>1, <2>3 DEF had, old
  <2>5. linked.primary = Stored(clear, k, v) /\ linked.secondary = Stored(freed, v, k)
    BY <1>1, <1>7, <2>4
  <2>17. /\ rest \in Maps(Keys, Keys)
         /\ KeysOf(rest) = KeysOf(moved) \ {holder}
         /\ \A j, w : Related(rest, j, w) <=> j # holder /\ Related(moved, j, w)
         /\ \A i, j : Precedes(rest, i, j) <=> i # holder /\ j # holder /\ Precedes(moved, i, j)
    BY <2>2, DroppedIs
  <2> HIDE DEF rest
  <2>6. /\ clear \in Maps(Keys, Keys)
        /\ KeysOf(clear) = IF taken THEN KeysOf(moved) \ {holder} ELSE KeysOf(moved)
        /\ \A j, w : Related(clear, j, w) <=> (taken => j # holder) /\ Related(moved, j, w)
        /\ \A i, j : Precedes(clear, i, j) <=> (taken => i # holder /\ j # holder) /\ Precedes(moved, i, j)
    BY <2>2, <2>17 DEF rest
  <2> DEFINE P == linked.primary
             S == linked.secondary
  <2> HIDE DEF clear, P, S
  <2>7. /\ P \in Maps(Keys, Keys)
        /\ KeysOf(P) = KeysOf(clear) \cup {k}
        /\ \A j, w : Related(P, j, w) <=> (j = k /\ w = v) \/ (j # k /\ Related(clear, j, w))
        /\ \A i, j : Precedes(P, i, j) <=>
                         \/ Precedes(clear, i, j)
                         \/ k \notin KeysOf(clear) /\ i \in KeysOf(clear) /\ j = k
    <3> DEFINE X == Stored(clear, k, v)
    <3>1. P = X
      BY <2>5 DEF P
    <3>2. P \in Maps(Keys, Keys) /\ Stores(clear, k, v, P)
      BY <2>6, <3>1, StoredIs
    <3> QED BY <3>2 DEF Stores
  <2>8. /\ S \in Maps(Keys, Keys)
        /\ KeysOf(S) = KeysOf(freed) \cup {v}
        /\ \A j, w : Related(S, j, w) <=> (j = v /\ w = k) \/ (j # v /\ Related(freed, j, w))
        /\ \A i, j : Precedes(S, i, j) <=>
                         \/ Precedes(freed, i, j)
                         \/ v \notin KeysOf(freed) /\ i \in KeysOf(freed) /\ j = v
    <3> DEFINE X == Stored(freed, v, k)
    <3>1. S = X
      BY <2>5 DEF S
    <3>2. S \in Maps(Keys, Keys) /\ Stores(freed, v, k, S)
      BY <2>1, <3>1, StoredIs
    <3> QED BY <3>2 DEF Stores
  <2>9. ASSUME NEW j, NEW w
        PROVE  Related(P, j, w) <=> (j = k /\ w = v) \/ (j # k /\ w # v /\ Related(m, j, w))
    <3>1. j # k /\ Related(m, j, w) => (w # v <=> (taken => j # holder))
      <4>1. Related(freed, w, j) => w \in KeysOf(freed) /\ j = ValueIn(freed, w)
        BY <2>1, Placed
      <4>2. j # k /\ Related(m, j, w) => Related(freed, w, j)
        BY <1>2, <1>3, <1>4, <2>1 DEF had, old
      <4>3. taken => (\A u : Related(m, holder, u) => u = v)
        BY <1>2, <1>4, <2>1, <2>3
      <4> QED BY <4>1, <4>2, <4>3 DEF taken, holder
    <3> QED BY <2>2, <2>6, <2>7, <3>1
  <2>10. ASSUME NEW j, NEW w
         PROVE  Related(S, w, j) <=> (j = k /\ w = v) \/ (j # k /\ w # v /\ Related(m, j, w))
    <3>1. Related(m, k, w) => had /\ w = old
      BY <1>2 DEF had, old
    <3>2. had => Related(m, k, old)
      BY <1>2 DEF had, old
    <3>3. had /\ Related(m, j, old) => j = k
      BY <1>3, <1>4, <3>2
    <3> QED BY <1>4, <2>1, <2>8, <3>1, <3>2, <3>3
  <2>11. Mirror(P, S)
    BY <2>9, <2>10 DEF Mirror
  <2>12. OrderKept(m, P)
    <3>1. had => k \in KeysOf(clear)
      BY <2>2, <2>4, <2>6 DEF had
    <3>2. ~had => k \notin KeysOf(clear)
      BY <2>2, <2>6 DEF had
    <3> QED BY <1>5, <2>2, <2>6, <2>7, <3>1, <3>2 DEF OrderKept, had
  <2>13. OrderKept(n, S)
    <3>1. had => v # old
      BY <1>7 DEF had, old
    <3>2. v \in KeysOf(freed) <=> v \in KeysOf(n)
      BY <2>1, <3>1
    <3> QED BY <1>5, <2>1, <2>8, <3>1, <3>2 DEF OrderKept
  <2> QED BY <2>7, <2>8, <2>9, <2>11, <2>12, <2>13 DEF P, S, linked
<1> QED BY <1>6, <1>7

LEMMA UnlinkIs ==
    ASSUME NEW m \in Maps(Keys, Keys), NEW n \in Maps(Keys, Keys), Mirror(m, n), NEW k \in KeysOf(m)
    PROVE  LET unlinked == Bi!Unlink(m, n, k)
           IN  /\ unlinked.primary \in Maps(Keys, Keys) /\ unlinked.secondary \in Maps(Keys, Keys)
               /\ \A j, w : Related(unlinked.primary, j, w) <=> j # k /\ Related(m, j, w)
               /\ Mirror(unlinked.primary, unlinked.secondary)
               /\ OrderKept(m, unlinked.primary) /\ OrderKept(n, unlinked.secondary)
<1> DEFINE old == ValueIn(m, k)
           P == Dropped(m, k)
           S == Dropped(n, old)
           unlinked == Bi!Unlink(m, n, k)
<1>1. unlinked.primary = P /\ unlinked.secondary = S
  BY BiIs DEF Bi!Unlink
<1>2. /\ \A j, w : Related(m, j, w) => j \in KeysOf(m) /\ w = ValueIn(m, j)
      /\ Related(m, k, old)
  BY Placed
<1>3. \A j, w : Related(n, j, w) => j \in KeysOf(n) /\ w = ValueIn(n, j)
  BY Placed
<1>4. \A j, w : Related(m, j, w) <=> Related(n, w, j)
  BY DEF Mirror
<1>5. /\ \A i, j : Precedes(m, i, j) => i \in KeysOf(m) /\ j \in KeysOf(m)
      /\ \A i, j : Precedes(n, i, j) => i \in KeysOf(n) /\ j \in KeysOf(n)
  BY PrecedesKeys
<1>6. /\ P \in Maps(Keys, Keys)
      /\ KeysOf(P) = KeysOf(m) \ {k}
      /\ \A j, w : Related(P, j, w) <=> j # k /\ Related(m, j, w)
      /\ \A i, j : Precedes(P, i, j) <=> i # k /\ j # k /\ Precedes(m, i, j)
  BY DroppedIs
<1>7. /\ S \in Maps(Keys, Keys)
      /\ KeysOf(S) = KeysOf(n) \ {old}
      /\ \A j, w : Related(S, j, w) <=> j # old /\ Related(n, j, w)
      /\ \A i, j : Precedes(S, i, j) <=> i # old /\ j # old /\ Precedes(n, i, j)
  BY DroppedIs
<1> HIDE DEF P, S, old, unlinked
<1>8. Mirror(P, S)
  BY <1>2, <1>3, <1>4, <1>6, <1>7 DEF Mirror
<1>9. OrderKept(m, P) /\ OrderKept(n, S)
  BY <1>5, <1>6, <1>7 DEF OrderKept
<1> QED BY <1>1, <1>6, <1>7, <1>8, <1>9 DEF unlinked

BiInv ==
    /\ items \in Maps(Keys, Keys)
    /\ other \in Maps(Keys, Keys)
    /\ Mirror(items, other)

PairsOf(m) == {<<m[n].key, m[n].value>> : n \in DOMAIN m}

SideOf(pairs, s) == {IF s = "key" THEN p[1] ELSE p[2] : p \in pairs}

LEMMA PairsAre ==
    ASSUME NEW m \in Maps(Keys, Keys), NEW n \in Maps(Keys, Keys), Mirror(m, n)
    PROVE  /\ \A k, v : <<k, v>> \in PairsOf(m) <=> Related(m, k, v)
           /\ PairsOf(m) \subseteq Keys \X Keys
           /\ SideOf(PairsOf(m), "key") = KeysOf(m)
           /\ SideOf(PairsOf(m), "value") = KeysOf(n)
<1>1. \A i \in DOMAIN m : m[i].key \in Keys /\ m[i].value \in Keys
  <2>1. m \in Seq([key : Keys, value : Keys])
    BY DEF Maps
  <2>2. \A i \in DOMAIN m : m[i] \in [key : Keys, value : Keys]
    <3> DEFINE S == [key : Keys, value : Keys]
    <3>1. m \in Seq(S)
      BY <2>1
    <3> HIDE DEF S
    <3>2. \A i \in DOMAIN m : m[i] \in S
      BY <3>1
    <3> QED BY <3>2 DEF S
  <2> QED BY <2>2
<1>2. \A k, v : <<k, v>> \in PairsOf(m) <=> Related(m, k, v)
  BY DEF PairsOf, Related
<1>3. PairsOf(m) \subseteq Keys \X Keys
  BY <1>1 DEF PairsOf
<1>4. SideOf(PairsOf(m), "key") = KeysOf(m)
  <2>1. \A x : x \in SideOf(PairsOf(m), "key") <=> \E p \in PairsOf(m) : p[1] = x
    BY DEF SideOf
  <2>2. ASSUME NEW x PROVE (\E p \in PairsOf(m) : p[1] = x) <=> \E i \in DOMAIN m : m[i].key = x
    <3>1. ASSUME NEW p \in PairsOf(m) PROVE \E i \in DOMAIN m : m[i].key = p[1]
      BY DEF PairsOf
    <3>2. ASSUME NEW i \in DOMAIN m PROVE <<m[i].key, m[i].value>> \in PairsOf(m)
      BY DEF PairsOf
    <3>3. ASSUME NEW i \in DOMAIN m, m[i].key = x PROVE \E p \in PairsOf(m) : p[1] = x
      <4> DEFINE q == <<m[i].key, m[i].value>>
      <4>1. q \in PairsOf(m) /\ q[1] = x
        BY <3>2, <3>3
      <4> QED BY <4>1
    <3> QED BY <3>1, <3>3
  <2>3. \A x : x \in KeysOf(m) <=> \E i \in DOMAIN m : m[i].key = x
    BY DEF KeysOf
  <2> QED BY <2>1, <2>2, <2>3
<1>5. \A v : (\E i \in DOMAIN m : m[i].value = v) <=> v \in KeysOf(n)
  <2> TAKE v
  <2>1. (\E i \in DOMAIN m : m[i].value = v) <=> \E k : Related(m, k, v)
    BY DEF Related
  <2>2. v \in KeysOf(n) <=> \E k : Related(n, v, k)
    BY Placed
  <2> QED BY <2>1, <2>2 DEF Mirror
<1>6. SideOf(PairsOf(m), "value") = KeysOf(n)
  <2>1. \A x : x \in SideOf(PairsOf(m), "value") <=> \E p \in PairsOf(m) : p[2] = x
    BY DEF SideOf
  <2>2. ASSUME NEW x PROVE (\E p \in PairsOf(m) : p[2] = x) <=> \E i \in DOMAIN m : m[i].value = x
    <3>1. ASSUME NEW p \in PairsOf(m) PROVE \E i \in DOMAIN m : m[i].value = p[2]
      BY DEF PairsOf
    <3>2. ASSUME NEW i \in DOMAIN m PROVE <<m[i].key, m[i].value>> \in PairsOf(m)
      BY DEF PairsOf
    <3>3. ASSUME NEW i \in DOMAIN m, m[i].value = x PROVE \E p \in PairsOf(m) : p[2] = x
      <4> DEFINE q == <<m[i].key, m[i].value>>
      <4>1. q \in PairsOf(m) /\ q[2] = x
        BY <3>2, <3>3
      <4> QED BY <4>1
    <3> QED BY <3>1, <3>3
  <2> QED BY <1>5, <2>1, <2>2
<1> QED BY <1>2, <1>3, <1>4, <1>6

(* There are as many pairs as entries, on either side.                     *)
LEMMA PairsCounted ==
    ASSUME NEW m \in Maps(Keys, Keys), NEW n \in Maps(Keys, Keys), Mirror(m, n)
    PROVE  Cardinality(PairsOf(m)) = Len(m) /\ Cardinality(PairsOf(m)) = Len(n)
<1> DEFINE f == [i \in 1 .. Len(m) |-> <<m[i].key, m[i].value>>]
           g == [i \in 1 .. Len(n) |-> <<n[i].value, n[i].key>>]
           pairs == PairsOf(m)
<1>1. /\ DOMAIN m = 1 .. Len(m) /\ Len(m) \in Nat /\ \A i, j \in DOMAIN m : m[i].key = m[j].key => i = j
      /\ DOMAIN n = 1 .. Len(n) /\ Len(n) \in Nat /\ \A i, j \in DOMAIN n : n[i].key = n[j].key => i = j
  BY DEF Maps
<1>2. \A k, v : <<k, v>> \in pairs <=> Related(m, k, v)
  BY PairsAre
<1>3. pairs \subseteq Keys \X Keys
  BY PairsAre
<1>4. \A k, v : Related(m, k, v) <=> Related(n, v, k)
  BY DEF Mirror
<1> HIDE DEF pairs
<1>5. f \in Bijection(1 .. Len(m), pairs)
  <2>1. \A i \in 1 .. Len(m) : f[i] \in pairs
    BY <1>1, <1>2 DEF Related
  <2>2. \A i, j \in 1 .. Len(m) : f[i] = f[j] => i = j
    BY <1>1
  <2>3. \A p \in pairs : \E i \in 1 .. Len(m) : f[i] = p
    <3> TAKE p \in pairs
    <3>1. PICK k, v : p = <<k, v>>
      BY <1>3
    <3>2. PICK i \in DOMAIN m : m[i].key = k /\ m[i].value = v
      BY <1>2, <3>1 DEF Related
    <3> QED BY <1>1, <3>1, <3>2
  <2>4. f \in [1 .. Len(m) -> pairs]
    BY <2>1
  <2> HIDE DEF f
  <2> QED BY <2>2, <2>3, <2>4 DEF Bijection, Injection, Surjection, IsInjective
<1>6. g \in Bijection(1 .. Len(n), pairs)
  <2>1. \A i \in 1 .. Len(n) : g[i] \in pairs
    <3> TAKE i \in 1 .. Len(n)
    <3>1. Related(n, n[i].key, n[i].value)
      BY <1>1 DEF Related
    <3> QED BY <1>2, <1>4, <3>1
  <2>2. \A i, j \in 1 .. Len(n) : g[i] = g[j] => i = j
    BY <1>1
  <2>3. \A p \in pairs : \E i \in 1 .. Len(n) : g[i] = p
    <3> TAKE p \in pairs
    <3>1. PICK k, v : p = <<k, v>>
      BY <1>3
    <3>2. PICK i \in DOMAIN n : n[i].key = v /\ n[i].value = k
      BY <1>2, <1>4, <3>1 DEF Related
    <3> QED BY <1>1, <3>1, <3>2
  <2>4. g \in [1 .. Len(n) -> pairs]
    BY <2>1
  <2> HIDE DEF g
  <2> QED BY <2>2, <2>3, <2>4 DEF Bijection, Injection, Surjection, IsInjective
<1> HIDE DEF f, g
<1>7. \A c \in Nat : IsFiniteSet(1 .. c) /\ Cardinality(1 .. c) = c
  BY FS_Interval
<1>8. Cardinality(pairs) = Len(m)
  BY <1>1, <1>5, <1>7, FS_Bijection DEF ExistsBijection
<1>9. Cardinality(pairs) = Len(n)
  BY <1>1, <1>6, <1>7, FS_Bijection DEF ExistsBijection
<1> QED BY <1>8, <1>9 DEF pairs

LEMMA PairingIs ==
    /\ Bi!Pairs = PairsOf(items)
    /\ \A s : Pairing!Present(s) = SideOf(PairsOf(items), s)
    /\ \A s : Pairing!Left(s) = SideOf(PairsOf(items'), s)
    /\ \A S : Pairing!Cardinality(S) = Cardinality(S)
<1>1. Bi!Pairs = PairsOf(items)
  BY DEF Bi!Pairs, PairsOf
<1>2. \A s : Pairing!Present(s) = SideOf(Bi!Pairs, s)
  BY DEF Pairing!Present, Pairing!Side, SideOf
<1>3. \A s : Pairing!Left(s) = SideOf(Bi!Pairs', s)
  BY DEF Pairing!Left, Pairing!Side, SideOf
<1>4. Bi!Pairs' = PairsOf(items')
  BY DEF Bi!Pairs, PairsOf
<1>5. \A S : Pairing!Cardinality(S) = Cardinality(S)
  BY DEF Pairing!Cardinality, Cardinality
<1> QED BY <1>1, <1>2, <1>3, <1>4, <1>5

BeforeOf(m) == {r \in Keys \X Keys : Precedes(m, r[1], r[2])}

LEMMA OrdersAre ==
    ASSUME NEW m
    PROVE  Bi!Before(m) = BeforeOf(m)
  BY DEF Bi!Before, BeforeOf, Precedes

LEMMA ReorderedWhenKept ==
    ASSUME BiInv, BiInv', OrderKept(items, items'), OrderKept(other, other')
    PROVE  Pairing!Reordered
<1> DEFINE next(m, n) ==
        (BeforeOf(m) \cap (KeysOf(n) \X KeysOf(n)))
        \cup ((KeysOf(n) \cap KeysOf(m)) \X (KeysOf(n) \ KeysOf(m)))
<1>1. ASSUME NEW m, NEW n \in Maps(Keys, Keys), OrderKept(m, n)
      PROVE  BeforeOf(n) = next(m, n)
  <2>1. KeysOf(n) \subseteq Keys
    <3> DEFINE S == [key : Keys, value : Keys]
    <3>1. n \in Seq(S)
      BY DEF Maps
    <3>2. \A i \in DOMAIN n : n[i] \in S
      <4> HIDE DEF S
      <4> QED BY <3>1
    <3> QED BY <3>2 DEF KeysOf
  <2>2. \A i, j : Precedes(n, i, j) => i \in KeysOf(n) /\ j \in KeysOf(n)
    BY PrecedesKeys
  <2>3. \A i, j \in Keys : <<i, j>> \in BeforeOf(n) <=> <<i, j>> \in next(m, n)
    BY <1>1, <2>1, <2>2 DEF OrderKept, BeforeOf
  <2>4. BeforeOf(n) \subseteq Keys \X Keys /\ next(m, n) \subseteq Keys \X Keys
    BY <2>1 DEF BeforeOf
  <2> HIDE DEF next
  <2> QED BY <2>3, <2>4
<1>2. BeforeOf(items') = next(items, items') /\ BeforeOf(other') = next(other, other')
  BY <1>1 DEF BiInv
<1>3. /\ Pairing!Present("key") = KeysOf(items) /\ Pairing!Present("value") = KeysOf(other)
      /\ Pairing!Left("key") = KeysOf(items') /\ Pairing!Left("value") = KeysOf(other')
  BY PairingIs, PairsAre DEF BiInv
<1>4. /\ Bi!Orders["key"] = BeforeOf(items) /\ Bi!Orders["value"] = BeforeOf(other)
      /\ Bi!Orders' = [s \in {"key", "value"} |-> IF s = "key" THEN BeforeOf(items') ELSE BeforeOf(other')]
  BY OrdersAre DEF Bi!Orders
<1> HIDE DEF next
<1>5. Bi!Orders' = [s \in {"key", "value"} |->
          (Bi!Orders[s] \cap (Pairing!Left(s) \X Pairing!Left(s)))
          \cup ((Pairing!Left(s) \cap Pairing!Present(s)) \X (Pairing!Left(s) \ Pairing!Present(s)))]
  <2> DEFINE moved(s) ==
          (Bi!Orders[s] \cap (Pairing!Left(s) \X Pairing!Left(s)))
          \cup ((Pairing!Left(s) \cap Pairing!Present(s)) \X (Pairing!Left(s) \ Pairing!Present(s)))
  <2>1. moved("key") = BeforeOf(items') /\ moved("value") = BeforeOf(other')
    BY <1>2, <1>3, <1>4 DEF next
  <2>2. \A s \in {"key", "value"} : moved(s) = IF s = "key" THEN BeforeOf(items') ELSE BeforeOf(other')
    BY <2>1
  <2> HIDE DEF moved
  <2>3. Bi!Orders' = [s \in {"key", "value"} |-> moved(s)]
    BY <1>4, <2>2
  <2> QED BY <2>3 DEF moved
<1> QED BY <1>5 DEF Pairing!Reordered, Pairing!Sides

(* A step that links or unlinks, and then counts both maps.                *)
LEMMA BiSteps ==
    ASSUME BiInv, BiInv', OrderKept(items, items'), OrderKept(other, other'), Bi!ResyncCounters
    PROVE  Pairing!Reordered /\ Pairing!Resized
<1>1. Pairing!Reordered
  BY ReorderedWhenKept
<1>2. size' = Len(items') /\ other_size' = Len(other')
  BY DEF Bi!ResyncCounters
<1>3. Cardinality(PairsOf(items')) = Len(items') /\ Cardinality(PairsOf(items')) = Len(other')
  BY PairsCounted DEF BiInv
<1>4. Bi!Pairs' = PairsOf(items')
  BY DEF Bi!Pairs, PairsOf
<1>5. Pairing!Cardinality(Bi!Pairs') = Cardinality(PairsOf(items'))
  BY <1>4, PairingIs
<1>6. Bi!Sizes' = [s \in {"key", "value"} |-> Pairing!Cardinality(Bi!Pairs')]
  BY <1>2, <1>3, <1>5 DEF Bi!Sizes
<1> QED BY <1>1, <1>6 DEF Pairing!Resized, Pairing!Sides

LEMMA MirrorTurned ==
    ASSUME NEW m, NEW n, Mirror(m, n)
    PROVE  Mirror(n, m)
  BY DEF Mirror

LEMMA PairsEqual ==
    ASSUME NEW P, P \subseteq Keys \X Keys, NEW Q, Q \subseteq Keys \X Keys,
           \A j, w \in Keys : <<j, w>> \in P <=> <<j, w>> \in Q
    PROVE  P = Q
  OBVIOUS

LEMMA Relates ==
    ASSUME BiInv, BiInv', NEW k \in Keys, NEW v \in Keys,
           \A j, w : Related(items', j, w) <=> (j = k /\ w = v) \/ (j # k /\ w # v /\ Related(items, j, w)),
           OrderKept(items, items'), OrderKept(other, other'), Bi!ResyncCounters
    PROVE  Pairing!Relate(k, v)
<1> DEFINE P == PairsOf(items)
           N == PairsOf(items')
           Q == {p \in P : p[1] # k /\ p[2] # v} \cup {<<k, v>>}
<1>1. /\ P \subseteq Keys \X Keys /\ N \subseteq Keys \X Keys
      /\ \A j, w : <<j, w>> \in P <=> Related(items, j, w)
      /\ \A j, w : <<j, w>> \in N <=> Related(items', j, w)
  BY PairsAre DEF BiInv
<1>2. Bi!Pairs = P /\ Bi!Pairs' = N
  BY PairingIs DEF Bi!Pairs, PairsOf
<1> HIDE DEF P, N
<1>3. N = Q
  <2>1. Q \subseteq Keys \X Keys
    BY <1>1
  <2>2. \A j, w \in Keys : <<j, w>> \in N <=> <<j, w>> \in Q
    BY <1>1
  <2> HIDE DEF Q
  <2> QED BY <1>1, <2>1, <2>2, PairsEqual
<1> QED BY <1>2, <1>3, BiSteps DEF Pairing!Relate

LEMMA Unrelates ==
    ASSUME BiInv, BiInv', NEW s \in {"key", "value"}, NEW x,
           x \in IF s = "key" THEN KeysOf(items) ELSE KeysOf(other),
           \A j, w : Related(items', j, w) <=> (IF s = "key" THEN j ELSE w) # x /\ Related(items, j, w),
           OrderKept(items, items'), OrderKept(other, other'), Bi!ResyncCounters
    PROVE  Pairing!Unrelate(s, x)
<1> DEFINE P == PairsOf(items)
           N == PairsOf(items')
           side(p) == IF s = "key" THEN p[1] ELSE p[2]
           Q == {p \in P : side(p) # x}
<1>1. /\ P \subseteq Keys \X Keys /\ N \subseteq Keys \X Keys
      /\ \A j, w : <<j, w>> \in P <=> Related(items, j, w)
      /\ \A j, w : <<j, w>> \in N <=> Related(items', j, w)
      /\ SideOf(P, "key") = KeysOf(items) /\ SideOf(P, "value") = KeysOf(other)
  BY PairsAre DEF BiInv
<1>2. Bi!Pairs = P /\ Bi!Pairs' = N
  BY PairingIs DEF Bi!Pairs, PairsOf
<1> HIDE DEF P, N
<1>3. N = Q
  <2>1. Q \subseteq Keys \X Keys
    BY <1>1
  <2>2. \A j, w \in Keys : <<j, w>> \in N <=> <<j, w>> \in Q
    BY <1>1
  <2> HIDE DEF Q
  <2> QED BY <1>1, <2>1, <2>2, PairsEqual
<1>4. \E p \in P : side(p) = x
  BY <1>1 DEF SideOf
<1>5. \A p : Pairing!Side(p, s) = side(p)
  BY DEF Pairing!Side
<1> QED BY <1>2, <1>3, <1>4, <1>5, BiSteps DEF Pairing!Unrelate

LEMMA BiSet ==
    ASSUME BiInv, NEW k \in Keys, NEW v \in Keys, Bi!Set(k, v)
    PROVE  BiInv' /\ Pairing!Relate(k, v)
<1> DEFINE linked == Bi!Link(items, other, k, v)
<1>1. items' = linked.primary /\ other' = linked.secondary /\ Bi!ResyncCounters
  BY DEF Bi!Set
<1>2. /\ linked.primary \in Maps(Keys, Keys) /\ linked.secondary \in Maps(Keys, Keys)
      /\ \A j, w : Related(linked.primary, j, w) <=>
                       (j = k /\ w = v) \/ (j # k /\ w # v /\ Related(items, j, w))
      /\ Mirror(linked.primary, linked.secondary)
      /\ OrderKept(items, linked.primary) /\ OrderKept(other, linked.secondary)
  BY LinkIs DEF BiInv
<1> HIDE DEF linked
<1>3. BiInv'
  BY <1>1, <1>2 DEF BiInv
<1>4. \A j, w : Related(items', j, w) <=> (j = k /\ w = v) \/ (j # k /\ w # v /\ Related(items, j, w))
  BY <1>1, <1>2
<1>5. OrderKept(items, items') /\ OrderKept(other, other')
  BY <1>1, <1>2
<1> QED BY <1>1, <1>3, <1>4, <1>5, Relates

LEMMA BiSetReverse ==
    ASSUME BiInv, NEW k \in Keys, NEW v \in Keys, Bi!SetReverse(v, k)
    PROVE  BiInv' /\ Pairing!Relate(k, v)
<1> DEFINE linked == Bi!Link(other, items, v, k)
<1>1. other' = linked.primary /\ items' = linked.secondary /\ Bi!ResyncCounters
  BY DEF Bi!SetReverse
<1>2. Mirror(other, items)
  BY MirrorTurned DEF BiInv
<1>3. /\ linked.primary \in Maps(Keys, Keys) /\ linked.secondary \in Maps(Keys, Keys)
      /\ \A w, j : Related(linked.primary, w, j) <=>
                       (w = v /\ j = k) \/ (w # v /\ j # k /\ Related(other, w, j))
      /\ Mirror(linked.primary, linked.secondary)
      /\ OrderKept(other, linked.primary) /\ OrderKept(items, linked.secondary)
  BY <1>2, LinkIs DEF BiInv
<1> HIDE DEF linked
<1>4. Mirror(linked.secondary, linked.primary)
  BY <1>3, MirrorTurned
<1>5. BiInv'
  BY <1>1, <1>3, <1>4 DEF BiInv
<1>6. \A j, w : Related(items', j, w) <=> (j = k /\ w = v) \/ (j # k /\ w # v /\ Related(items, j, w))
  BY <1>1, <1>2, <1>3, <1>4 DEF Mirror
<1>7. OrderKept(items, items') /\ OrderKept(other, other')
  BY <1>1, <1>3
<1> QED BY <1>1, <1>5, <1>6, <1>7, Relates

LEMMA BiDelete ==
    ASSUME BiInv, NEW k \in Keys, Bi!Delete(k)
    PROVE  BiInv' /\ Pairing!Unrelate("key", k)
<1> DEFINE unlinked == Bi!Unlink(items, other, k)
<1>1. /\ k \in KeysOf(items)
      /\ items' = unlinked.primary /\ other' = unlinked.secondary /\ Bi!ResyncCounters
  BY BiIs DEF Bi!Delete
<1>2. /\ unlinked.primary \in Maps(Keys, Keys) /\ unlinked.secondary \in Maps(Keys, Keys)
      /\ \A j, w : Related(unlinked.primary, j, w) <=> j # k /\ Related(items, j, w)
      /\ Mirror(unlinked.primary, unlinked.secondary)
      /\ OrderKept(items, unlinked.primary) /\ OrderKept(other, unlinked.secondary)
  BY <1>1, UnlinkIs DEF BiInv
<1> HIDE DEF unlinked
<1>3. BiInv'
  BY <1>1, <1>2 DEF BiInv
<1>4. \A j, w : Related(items', j, w) <=> j # k /\ Related(items, j, w)
  BY <1>1, <1>2
<1>5. OrderKept(items, items') /\ OrderKept(other, other')
  BY <1>1, <1>2
<1> QED BY <1>1, <1>3, <1>4, <1>5, Unrelates

LEMMA BiDeleteReverse ==
    ASSUME BiInv, NEW v \in Keys, Bi!DeleteReverse(v)
    PROVE  BiInv' /\ Pairing!Unrelate("value", v)
<1> DEFINE unlinked == Bi!Unlink(other, items, v)
<1>1. /\ v \in KeysOf(other)
      /\ other' = unlinked.primary /\ items' = unlinked.secondary /\ Bi!ResyncCounters
  BY BiIs DEF Bi!DeleteReverse
<1>2. Mirror(other, items)
  BY MirrorTurned DEF BiInv
<1>3. /\ unlinked.primary \in Maps(Keys, Keys) /\ unlinked.secondary \in Maps(Keys, Keys)
      /\ \A w, j : Related(unlinked.primary, w, j) <=> w # v /\ Related(other, w, j)
      /\ Mirror(unlinked.primary, unlinked.secondary)
      /\ OrderKept(other, unlinked.primary) /\ OrderKept(items, unlinked.secondary)
  BY <1>1, <1>2, UnlinkIs DEF BiInv
<1> HIDE DEF unlinked
<1>4. Mirror(unlinked.secondary, unlinked.primary)
  BY <1>3, MirrorTurned
<1>5. BiInv'
  BY <1>1, <1>3, <1>4 DEF BiInv
<1>6. \A j, w : Related(items', j, w) <=> w # v /\ Related(items, j, w)
  BY <1>1, <1>2, <1>3, <1>4 DEF Mirror
<1>7. OrderKept(items, items') /\ OrderKept(other, other')
  BY <1>1, <1>3
<1> QED BY <1>1, <1>5, <1>6, <1>7, Unrelates

LEMMA EmptyMaps ==
    ASSUME NEW K, NEW V
    PROVE  /\ <<>> \in Maps(K, V) /\ KeysOf(<<>>) = {} /\ Len(<<>>) = 0
           /\ \A j, w : ~Related(<<>>, j, w) /\ ~Precedes(<<>>, j, w)
           /\ PairsOf(<<>>) = {} /\ BeforeOf(<<>>) = {}
  BY DEF Maps, KeysOf, Related, Precedes, PairsOf, BeforeOf

LEMMA BiClear ==
    ASSUME BiInv, NEW s \in {"key", "value"}, items' = <<>>, other' = <<>>,
           size' = IF s = "key" THEN 0 ELSE size,
           other_size' = IF s = "value" THEN 0 ELSE other_size
    PROVE  BiInv' /\ Pairing!Clear(s)
<1>1. /\ items' \in Maps(Keys, Keys) /\ KeysOf(items') = {}
      /\ \A j, w : ~Related(items', j, w) /\ ~Precedes(items', j, w)
      /\ other' \in Maps(Keys, Keys) /\ KeysOf(other') = {}
      /\ \A j, w : ~Related(other', j, w) /\ ~Precedes(other', j, w)
      /\ PairsOf(items') = {}
  BY EmptyMaps
<1>2. BiInv'
  BY <1>1 DEF BiInv, Mirror
<1>3. OrderKept(items, items') /\ OrderKept(other, other')
  BY <1>1 DEF OrderKept
<1>4. Pairing!Reordered
  BY <1>2, <1>3, ReorderedWhenKept
<1>5. Bi!Pairs' = {}
  BY <1>1 DEF Bi!Pairs, PairsOf
<1>6. Bi!Sizes' = [Bi!Sizes EXCEPT ![s] = 0]
  BY DEF Bi!Sizes
<1> QED BY <1>2, <1>4, <1>5, <1>6 DEF Pairing!Clear

LEMMA BiNext ==
    ASSUME BiInv, Bi!Next
    PROVE  BiInv' /\ Pairing!Next
<1>1. CASE \E k, v \in Keys : Bi!Set(k, v) \/ Bi!SetReverse(v, k)
  BY <1>1, BiSet, BiSetReverse DEF Pairing!Next
<1>2. CASE \E x \in Keys : Bi!Delete(x) \/ Bi!DeleteReverse(x)
  <2>1. BiInv' /\ \E s \in {"key", "value"} : \E x \in Keys : Pairing!Unrelate(s, x)
    BY <1>2, BiDelete, BiDeleteReverse
  <2> QED BY <2>1 DEF Pairing!Next, Pairing!Sides
<1>3. CASE Bi!Clear \/ Bi!ClearReverse
  <2>1. BiInv' /\ \E s \in {"key", "value"} : Pairing!Clear(s)
    BY <1>3, BiClear DEF Bi!Clear, Bi!ClearReverse
  <2> QED BY <2>1 DEF Pairing!Next, Pairing!Sides
<1> QED BY <1>1, <1>2, <1>3 DEF Bi!Next

LEMMA BiStarts ==
    ASSUME Bi!Init
    PROVE  BiInv /\ Pairing!Init
<1>1. /\ items \in Maps(Keys, Keys) /\ \A j, w : ~Related(items, j, w)
      /\ other \in Maps(Keys, Keys) /\ \A j, w : ~Related(other, j, w)
      /\ PairsOf(items) = {} /\ BeforeOf(items) = {} /\ BeforeOf(other) = {}
  BY EmptyMaps DEF Bi!Init
<1>2. Bi!Pairs = {}
  BY <1>1, PairingIs
<1>3. Bi!Orders = [s \in {"key", "value"} |-> {}]
  BY <1>1, OrdersAre DEF Bi!Orders
<1>4. Bi!Sizes = [s \in {"key", "value"} |-> 0]
  BY DEF Bi!Sizes, Bi!Init
<1> QED BY <1>1, <1>2, <1>3, <1>4 DEF BiInv, Mirror, Pairing!Init, Pairing!Sides

LEMMA BiInductive == Bi!Spec => []BiInv
<1>1. Bi!Init => BiInv
  BY BiStarts
<1>2. BiInv /\ [Bi!Next]_Bi!vars => BiInv'
  <2>1. BiInv /\ UNCHANGED Bi!vars => BiInv'
    BY DEF BiInv, Bi!vars
  <2> QED BY <2>1, BiNext
<1> QED BY <1>1, <1>2, PTL DEF Bi!Spec

(* Every call but a clear reads both counters again, and by then the maps  *)
(* are equally long; a clear resets one of the two.                        *)
BiSized ==
    /\ items # <<>> => size = Len(items) /\ other_size = Len(items)
    /\ items = <<>> => size = 0 \/ other_size = 0

LEMMA BiCounted ==
    ASSUME BiInv, BiInv', BiSized, Bi!Next
    PROVE  BiSized'
<1>1. CASE Bi!ResyncCounters
  <2>1. size' = Len(items') /\ other_size' = Len(other') /\ Len(items') = Len(other')
    BY <1>1, PairsCounted DEF BiInv, Bi!ResyncCounters
  <2>2. items' = <<>> => Len(items') = 0
    OBVIOUS
  <2> QED BY <2>1, <2>2 DEF BiSized
<1>2. CASE Bi!Clear \/ Bi!ClearReverse
  BY <1>2 DEF BiSized, Bi!Clear, Bi!ClearReverse
<1> QED BY <1>1, <1>2 DEF Bi!Next, Bi!Set, Bi!SetReverse, Bi!Delete, Bi!DeleteReverse

LEMMA BiSizedAlways == Bi!Spec => []BiSized
<1>1. Bi!Init => BiSized
  BY DEF Bi!Init, BiSized
<1>2. BiInv /\ BiInv' /\ BiSized /\ [Bi!Next]_Bi!vars => BiSized'
  <2>1. BiSized /\ UNCHANGED Bi!vars => BiSized'
    BY DEF BiSized, Bi!vars
  <2> QED BY <2>1, BiCounted
<1> QED BY <1>1, <1>2, BiInductive, PTL DEF Bi!Spec

(* Whatever was set, deleted and cleared through either view of a          *)
(* bi_map.rs, in whatever order, each of its two maps is the other one     *)
(* read backwards; they are equally long, and both counters are that       *)
(* length while there are entries.  A clear leaves the other side's        *)
(* counter as it was, so of empty maps only one counter need be zero.      *)
THEOREM ViewsAgree == Bi!Spec => [](Bi!Converse /\ Bi!SizesExact)
<1>1. BiInv => Bi!Converse
  <2> SUFFICES ASSUME BiInv PROVE Bi!Converse
    OBVIOUS
  <2> DEFINE turned == {<<e.value, e.key>> : e \in Bi!Range(other)}
  <2>1. /\ \A k, v : <<k, v>> \in PairsOf(items) <=> Related(items, k, v)
        /\ PairsOf(items) \subseteq Keys \X Keys /\ Bi!Pairs = PairsOf(items)
    BY PairsAre, PairingIs DEF BiInv
  <2>2. \A k, v : <<k, v>> \in turned <=> Related(other, v, k)
    BY DEF Bi!Range, Related
  <2>3. turned \subseteq Keys \X Keys
    <3>1. /\ \A k, v : <<k, v>> \in PairsOf(other) <=> Related(other, k, v)
          /\ PairsOf(other) \subseteq Keys \X Keys
      BY MirrorTurned, PairsAre DEF BiInv
    <3>2. ASSUME NEW p \in turned PROVE p \in Keys \X Keys
      <4>1. PICK e \in Bi!Range(other) : p = <<e.value, e.key>>
        OBVIOUS
      <4>2. Related(other, e.key, e.value)
        BY <4>1 DEF Bi!Range, Related
      <4>3. <<e.key, e.value>> \in PairsOf(other)
        BY <3>1, <4>2
      <4>4. <<e.key, e.value>> \in Keys \X Keys
        BY <3>1, <4>3
      <4> QED BY <4>1, <4>4
    <3> QED BY <3>2
  <2> HIDE DEF turned
  <2>4. turned = PairsOf(items)
    BY <2>1, <2>2, <2>3, PairsEqual DEF BiInv, Mirror
  <2> QED BY <2>1, <2>4 DEF turned, Bi!Converse
<1>2. BiInv /\ BiSized => Bi!SizesExact
  BY PairsCounted DEF BiInv, BiSized, Bi!SizesExact
<1> QED BY <1>1, <1>2, BiInductive, BiSizedAlways, PTL

(* The two maps of a BiMap, edited one after the other, do what a one-to-one *)
(* relation does (BijectionSpec): relating two members releases whoever    *)
(* either was related to, members keep their places, and both sides count  *)
(* the same but for a clear, which only one side hears of.                 *)
THEOREM BijectionImplemented == Bi!Spec => Pairing!Spec
<1>1. Bi!Init => Pairing!Init
  BY BiStarts
<1>2. BiInv /\ [Bi!Next]_Bi!vars => [Pairing!Next]_Pairing!bijectionVars
  <2>1. UNCHANGED Bi!vars => UNCHANGED Pairing!bijectionVars
    BY DEF Bi!vars, Pairing!bijectionVars, Bi!Pairs, Bi!Orders, Bi!Sizes, Bi!Before
  <2> QED BY <2>1, BiNext
<1> QED BY <1>1, <1>2, BiInductive, PTL DEF Bi!Spec, Pairing!Spec

-----------------------------------------------------------------------------
(* A DefaultMap under any stack of factories.                              *)

LEMMA DefaultIs ==
    ASSUME NEW m
    PROVE  /\ Default!Keys(m) = KeysOf(m)
           /\ \A k, v : Default!Put(m, k, v) = Stored(m, k, v)
           /\ \A k : Default!Drop(m, k) = Dropped(m, k)
  BY DEF Default!Keys, Default!PlaceOf, Default!Put, Default!Drop, Default!RemoveAt,
         KeysOf, PlaceIn, Stored, Dropped, Without

Working == [key : Keys, size : Nat]

DefaultInv ==
    /\ items \in Maps(Keys, Values \cup {None})
    /\ size = Len(items) + overwrites
    /\ overwrites \in Nat
    /\ factories \in Seq(Working)

LEMMA MapLen ==
    ASSUME NEW K, NEW V, NEW m \in Maps(K, V)
    PROVE  Len(m) \in Nat
  BY DEF Maps

LEMMA StoredLen ==
    ASSUME NEW K, NEW V, NEW m \in Maps(K, V), NEW k \in K, NEW v \in V
    PROVE  /\ Stored(m, k, v) \in Maps(K, V)
           /\ Len(Stored(m, k, v)) = IF k \in KeysOf(m) THEN Len(m) ELSE Len(m) + 1
  BY StoredIs DEF Stores

LEMMA LastOut ==
    ASSUME NEW S, NEW s \in Seq(S), s # <<>>
    PROVE  s[Len(s)] \in S /\ SubSeq(s, 1, Len(s) - 1) \in Seq(S)
<1> DEFINE len == Len(s)
           low == Len(s) - 1
<1>1. len \in Nat /\ len > 0 /\ low \in Int /\ \A i \in 1 .. len : s[i] \in S
  BY EmptySeq
<1>2. s[len] \in S
  BY <1>1
<1>3. \A i \in 1 .. low : s[i] \in S
  BY <1>1
<1>4. SubSeq(s, 1, low) \in Seq(S)
  <2> HIDE DEF low
  <2> QED BY <1>1, <1>3, SubSeqProperties
<1> QED BY <1>2, <1>4

LEMMA DefaultNext ==
    ASSUME DefaultInv, Default!Next
    PROVE  DefaultInv'
<1> DEFINE V == Values \cup {None}
<1>1. Len(items) \in Nat /\ items \in Maps(Keys, V)
  BY MapLen DEF DefaultInv
<1> HIDE DEF V
<1>2. ASSUME NEW k \in Keys, Default!Delete(k)
      PROVE  DefaultInv'
  <2>1. items' = Dropped(items, k) /\ size' = Len(items') /\ overwrites' = 0 /\ factories' = factories
    BY <1>2, DefaultIs DEF Default!Delete, Default!Resync
  <2>2. items' \in Maps(Keys, V)
    BY <1>1, <2>1, DroppedIs
  <2>3. Len(items') \in Nat
    BY <2>2, MapLen
  <2> QED BY <2>1, <2>2, <2>3 DEF DefaultInv, V
<1>3. ASSUME NEW k \in Keys, Default!Get(k)
      PROVE  DefaultInv'
  <2> DEFINE e == [key |-> k, size |-> size]
  <2>1. items' = items /\ size' = size /\ overwrites' = overwrites /\ factories' = Append(factories, e)
    BY <1>3 DEF Default!Get
  <2>2. e \in Working
    BY <1>1 DEF Working, DefaultInv
  <2>3. factories' \in Seq(Working)
    <3> HIDE DEF e
    <3> QED BY <2>1, <2>2, AppendProperties DEF DefaultInv
  <2> QED BY <2>1, <2>3 DEF DefaultInv
<1>4. ASSUME NEW k \in Keys, NEW v \in V, Default!Set(k, v)
      PROVE  DefaultInv'
  <2>1. items' = Stored(items, k, v) /\ size' = Len(items') /\ overwrites' = 0 /\ factories' = factories
    BY <1>4, DefaultIs DEF Default!Set, Default!Resync
  <2>2. items' \in Maps(Keys, V)
    BY <1>1, <2>1, StoredLen
  <2>3. Len(items') \in Nat
    BY <2>2, MapLen
  <2> QED BY <2>1, <2>2, <2>3 DEF DefaultInv, V
<1>5. ASSUME NEW v \in V, Default!InsertFromFactory(v)
      PROVE  DefaultInv'
  <2> DEFINE last == factories[Len(factories)]
             k == last.key
  <2>1. /\ factories # <<>>
        /\ items' = Stored(items, k, v)
        /\ size' = size + 1
        /\ overwrites' = overwrites + IF k \in KeysOf(items) THEN 1 ELSE 0
        /\ factories' = SubSeq(factories, 1, Len(factories) - 1)
    BY <1>5, DefaultIs DEF Default!InsertFromFactory, Default!Innermost, Default!Last, Default!Front
  <2>2. last \in Working /\ factories' \in Seq(Working)
    BY <2>1, LastOut DEF DefaultInv
  <2>3. k \in Keys
    BY <2>2 DEF Working
  <2> HIDE DEF k
  <2>4. /\ items' \in Maps(Keys, V)
        /\ Len(items') = IF k \in KeysOf(items) THEN Len(items) ELSE Len(items) + 1
    BY <1>1, <2>1, <2>3, StoredLen
  <2> QED BY <1>1, <2>1, <2>2, <2>4 DEF DefaultInv, V
<1>6. CASE Default!Clear
  <2>1. items' = <<>> /\ size' = Len(items') /\ overwrites' = 0 /\ factories' = factories
    BY <1>6 DEF Default!Clear, Default!Resync
  <2>2. items' \in Maps(Keys, V) /\ Len(items') = 0
    BY <2>1, EmptyMaps
  <2> QED BY <2>1, <2>2 DEF DefaultInv, V
<1>7. CASE Default!FactoryThrows
  <2>1. /\ factories # <<>>
        /\ items' = items /\ size' = size /\ overwrites' = overwrites
        /\ factories' = SubSeq(factories, 1, Len(factories) - 1)
    BY <1>7 DEF Default!FactoryThrows, Default!Front
  <2>2. factories' \in Seq(Working)
    BY <2>1, LastOut DEF DefaultInv
  <2> QED BY <2>1, <2>2 DEF DefaultInv
<1> QED BY <1>2, <1>3, <1>4, <1>5, <1>6, <1>7 DEF Default!Next, V

(* The size of a default map is the number of its entries and of those     *)
(* insertions that overwrote one since it was last exact, so never too     *)
(* low, whatever the factories, in each other's midst, set, deleted,       *)
(* cleared or threw.                                                       *)
THEOREM DefaultSizeCorrect == Default!Spec => []Default!SizeAccounted
<1>1. Default!Init => DefaultInv
  BY EmptyMaps, EmptySeq DEF Default!Init, DefaultInv
<1>2. DefaultInv /\ [Default!Next]_Default!vars => DefaultInv'
  <2>1. DefaultInv /\ UNCHANGED Default!vars => DefaultInv'
    BY DEF DefaultInv, Default!vars
  <2> QED BY <2>1, DefaultNext
<1>3. DefaultInv => Default!SizeAccounted
  BY DEF DefaultInv, Default!SizeAccounted
<1> QED BY <1>1, <1>2, <1>3, PTL DEF Default!Spec

-----------------------------------------------------------------------------
(* Things of which there are so and so many of each.                       *)

Copies(c) == UNION {{k} \X (1 .. c[k]) : k \in DOMAIN c}

LEMMA CopiesAre ==
    ASSUME NEW c
    PROVE  \A x : x \in Copies(c) <=> \E k \in DOMAIN c : \E i \in 1 .. c[k] : x = <<k, i>>
  BY DEF Copies

LEMMA Recounted ==
    ASSUME NEW K, NEW c \in [K -> Nat], NEW k \in K, NEW n \in Nat, IsFiniteSet(Copies(c))
    PROVE  /\ IsFiniteSet(Copies([c EXCEPT ![k] = n]))
           /\ Cardinality(Copies([c EXCEPT ![k] = n])) = (Cardinality(Copies(c)) - c[k]) + n
           /\ Cardinality(Copies(c)) \in Nat
           /\ c[k] <= Cardinality(Copies(c))
<1> DEFINE new == [c EXCEPT ![k] = n]
           rest == {x \in Copies(c) : x[1] # k}
           of(i) == {k} \X (1 .. i)
<1>1. ASSUME NEW i \in Nat
      PROVE  IsFiniteSet(of(i)) /\ Cardinality(of(i)) = i
  <2>1. IsFiniteSet({k}) /\ Cardinality({k}) = 1
    BY FS_Singleton
  <2>2. IsFiniteSet(1 .. i) /\ Cardinality(1 .. i) = i
    BY FS_Interval
  <2> DEFINE one == {k}
             many == 1 .. i
  <2>3. of(i) = one \X many
    OBVIOUS
  <2>4. IsFiniteSet(one) /\ Cardinality(one) = 1 /\ IsFiniteSet(many) /\ Cardinality(many) = i
    BY <2>1, <2>2
  <2> HIDE DEF one, many, of
  <2>5. IsFiniteSet(of(i)) /\ Cardinality(of(i)) = 1 * i
    BY <2>3, <2>4, FS_Product
  <2> QED BY <2>5
<1>2. IsFiniteSet(rest) /\ Cardinality(rest) \in Nat
  <2>1. rest \subseteq Copies(c)
    OBVIOUS
  <2> QED BY <2>1, FS_Subset, FS_CardinalityType
<1>3. ASSUME NEW i \in Nat
      PROVE  IsFiniteSet(rest \cup of(i)) /\ Cardinality(rest \cup of(i)) = Cardinality(rest) + i
  <2>1. rest \cap of(i) = {}
    OBVIOUS
  <2> HIDE DEF rest, of
  <2>2. Cardinality(rest \cap of(i)) = 0
    BY <2>1, FS_EmptySet
  <2>3. IsFiniteSet(of(i)) /\ Cardinality(of(i)) = i
    BY <1>1
  <2>4. /\ IsFiniteSet(rest \cup of(i))
        /\ Cardinality(rest \cup of(i)) = Cardinality(rest) + Cardinality(of(i)) - Cardinality(rest \cap of(i))
    BY <1>2, <2>3, FS_Union
  <2> QED BY <1>2, <2>2, <2>3, <2>4
<1>4. Copies(c) = rest \cup of(c[k])
  BY CopiesAre
<1>5. Copies(new) = rest \cup of(n)
  <2>1. DOMAIN new = K /\ new[k] = n /\ \A j \in K : j # k => new[j] = c[j]
    OBVIOUS
  <2> HIDE DEF new
  <2>2. ASSUME NEW x \in Copies(new) PROVE x \in rest \cup of(n)
    <3>0. PICK j \in K : \E i \in 1 .. new[j] : x = <<j, i>>
      BY <2>1, CopiesAre
    <3>1. PICK i \in 1 .. new[j] : x = <<j, i>>
      BY <3>0
    <3>2. CASE j = k
      BY <2>1, <3>1, <3>2
    <3>3. CASE j # k
      <4>1. x \in Copies(c)
        BY <2>1, <3>1, <3>3, CopiesAre
      <4> QED BY <3>1, <3>3, <4>1
    <3> QED BY <3>2, <3>3
  <2>3. ASSUME NEW x \in rest PROVE x \in Copies(new)
    <3>0. PICK j \in K : \E i \in 1 .. c[j] : x = <<j, i>>
      BY CopiesAre
    <3>1. PICK i \in 1 .. c[j] : x = <<j, i>>
      BY <3>0
    <3>2. j # k
      BY <3>1
    <3> QED BY <2>1, <3>1, <3>2, CopiesAre
  <2>4. ASSUME NEW x \in of(n) PROVE x \in Copies(new)
    BY <2>1, CopiesAre
  <2> QED BY <2>2, <2>3, <2>4
<1> HIDE DEF new, rest, of
<1>6. c[k] \in Nat
  OBVIOUS
<1>7. /\ IsFiniteSet(Copies(new)) /\ Cardinality(Copies(new)) = Cardinality(rest) + n
      /\ Cardinality(Copies(c)) = Cardinality(rest) + c[k]
  BY <1>3, <1>4, <1>5, <1>6
<1> QED BY <1>2, <1>6, <1>7 DEF new

(* How many there are of each, when values are lists and when they are     *)
(* numbers.                                                                *)
LengthsOf(m) == [k \in Keys |-> IF k \in KeysOf(m) THEN Len(ValueIn(m, k)) ELSE 0]

CountsOf(m) == [k \in Keys |-> IF k \in KeysOf(m) THEN ValueIn(m, k) ELSE 0]

LEMMA Refilled ==
    ASSUME NEW V, NEW m \in Maps(Keys, V), NEW k \in Keys, NEW v \in V
    PROVE  /\ LengthsOf(Stored(m, k, v)) = [LengthsOf(m) EXCEPT ![k] = Len(v)]
           /\ LengthsOf(Dropped(m, k)) = [LengthsOf(m) EXCEPT ![k] = 0]
           /\ CountsOf(Stored(m, k, v)) = [CountsOf(m) EXCEPT ![k] = v]
           /\ CountsOf(Dropped(m, k)) = [CountsOf(m) EXCEPT ![k] = 0]
<1> DEFINE s == Stored(m, k, v)
           d == Dropped(m, k)
<1>1. s \in Maps(Keys, V) /\ Stores(m, k, v, s)
  BY StoredIs
<1>2. /\ d \in Maps(Keys, V)
      /\ KeysOf(d) = KeysOf(m) \ {k}
      /\ \A j, w : Related(d, j, w) <=> j # k /\ Related(m, j, w)
  BY DroppedIs
<1> HIDE DEF s, d
<1>3. \A j \in Keys : j # k => (j \in KeysOf(s) <=> j \in KeysOf(m)) /\ (j \in KeysOf(s) => ValueIn(s, j) = ValueIn(m, j))
  <2> TAKE j \in Keys
  <2>1. j \in KeysOf(m) => Related(m, j, ValueIn(m, j))
    BY Placed
  <2>2. \A w : Related(s, j, w) => w = ValueIn(s, j)
    BY <1>1, Placed
  <2> QED BY <1>1, <2>1, <2>2 DEF Stores
<1>4. k \in KeysOf(s) /\ ValueIn(s, k) = v
  <2>1. Related(s, k, v)
    BY <1>1 DEF Stores
  <2> QED BY <1>1, <2>1, Placed
<1>5. \A j \in Keys : j # k => (j \in KeysOf(d) <=> j \in KeysOf(m)) /\ (j \in KeysOf(d) => ValueIn(d, j) = ValueIn(m, j))
  <2> TAKE j \in Keys
  <2>1. j \in KeysOf(m) => Related(m, j, ValueIn(m, j))
    BY Placed
  <2>2. \A w : Related(d, j, w) => w = ValueIn(d, j)
    BY <1>2, Placed
  <2> QED BY <1>2, <2>1, <2>2
<1>6. k \notin KeysOf(d)
  BY <1>2
<1>7. LengthsOf(s) = [LengthsOf(m) EXCEPT ![k] = Len(v)] /\ CountsOf(s) = [CountsOf(m) EXCEPT ![k] = v]
  BY <1>3, <1>4 DEF LengthsOf, CountsOf
<1>8. LengthsOf(d) = [LengthsOf(m) EXCEPT ![k] = 0] /\ CountsOf(d) = [CountsOf(m) EXCEPT ![k] = 0]
  BY <1>5, <1>6 DEF LengthsOf, CountsOf
<1> QED BY <1>7, <1>8 DEF s, d

-----------------------------------------------------------------------------
(* A MultiMap, whose buckets are lists or sets.                            *)

Good(bucket) == bucket # <<>> /\ (Unique => \A i, j \in DOMAIN bucket : bucket[i] = bucket[j] => i = j)

Full == {bucket \in Seq(Values) : Good(bucket)}

BucketsInv ==
    /\ items \in Maps(Keys, Full)
    /\ IsFiniteSet(Copies(LengthsOf(items)))
    /\ size = Cardinality(Copies(LengthsOf(items)))

LEMMA BucketsIs ==
    ASSUME NEW m
    PROVE  /\ Buckets!Keys(m) = KeysOf(m)
           /\ \A k : Buckets!ValueOf(m, k) = ValueIn(m, k)
           /\ \A k, v : Buckets!Put(m, k, v) = Stored(m, k, v)
           /\ \A k : Buckets!Drop(m, k) = Dropped(m, k)
  BY DEF Buckets!Keys, Buckets!PlaceOf, Buckets!ValueOf, Buckets!Put, Buckets!Drop, Buckets!RemoveAt,
         KeysOf, PlaceIn, ValueIn, Stored, Dropped, Without

BucketIn(m, k) == IF k \in KeysOf(m) THEN ValueIn(m, k) ELSE <<>>

(* A map without values has no copies.                                     *)
LEMMA NoneCopied ==
           /\ IsFiniteSet(Copies(LengthsOf(<<>>))) /\ Cardinality(Copies(LengthsOf(<<>>))) = 0
           /\ IsFiniteSet(Copies(CountsOf(<<>>))) /\ Cardinality(Copies(CountsOf(<<>>))) = 0
<1>1. KeysOf(<<>>) = {}
  BY DEF KeysOf
<1>2. LengthsOf(<<>>) = [k \in Keys |-> 0] /\ CountsOf(<<>>) = [k \in Keys |-> 0]
  BY <1>1 DEF LengthsOf, CountsOf
<1>3. Copies([k \in Keys |-> 0]) = {}
  BY CopiesAre
<1> QED BY <1>2, <1>3, FS_EmptySet

LEMMA ValuesAre ==
    ASSUME NEW K, NEW V, NEW m \in Maps(K, V), NEW k
    PROVE  k \in KeysOf(m) => ValueIn(m, k) \in V /\ k \in K
<1> DEFINE S == [key : K, value : V]
<1>1. m \in Seq(S)
  BY DEF Maps
<1>2. k \in KeysOf(m) => PlaceIn(m, k) \in DOMAIN m /\ m[PlaceIn(m, k)].key = k
  BY Placed
<1>3. \A n \in DOMAIN m : m[n] \in S
  <2> HIDE DEF S
  <2> QED BY <1>1
<1> QED BY <1>2, <1>3 DEF ValueIn

LEMMA HeldIs ==
    ASSUME items \in Maps(Keys, Full)
    PROVE  /\ Buckets!Held = Copies(LengthsOf(items))
           /\ LengthsOf(items) \in [Keys -> Nat]
           /\ \A k \in Keys : LengthsOf(items)[k] = Len(BucketIn(items, k))
<1>1. \A k \in Keys : k \in KeysOf(items) => ValueIn(items, k) \in Full
  BY ValuesAre
<1>2. \A b \in Full : b \in Seq(Values) /\ Len(b) \in Nat /\ DOMAIN b = 1 .. Len(b)
  BY DEF Full
<1>3. LengthsOf(items) \in [Keys -> Nat] /\ \A k \in Keys : LengthsOf(items)[k] = Len(BucketIn(items, k))
  BY <1>1, <1>2 DEF LengthsOf, BucketIn
<1>4. ASSUME NEW n \in DOMAIN items
      PROVE  items[n].key \in Keys /\ items[n].key \in KeysOf(items) /\ items[n].value = ValueIn(items, items[n].key)
  <2>1. items[n].key \in KeysOf(items)
    BY DEF KeysOf
  <2>2. Related(items, items[n].key, items[n].value)
    BY DEF Related
  <2> QED BY <2>1, <2>2, ValuesAre, Placed
<1>5. ASSUME NEW k \in Keys, k \in KeysOf(items)
      PROVE  \E n \in DOMAIN items : items[n].key = k /\ items[n].value = ValueIn(items, k)
  BY <1>5, Placed DEF Related
<1>6. ASSUME NEW x
      PROVE  x \in Buckets!Held <=> \E n \in DOMAIN items : \E i \in DOMAIN items[n].value : x = <<items[n].key, i>>
  BY DEF Buckets!Held
<1>7. ASSUME NEW x
      PROVE  x \in Copies(LengthsOf(items)) <=> \E k \in Keys : \E i \in 1 .. LengthsOf(items)[k] : x = <<k, i>>
  BY <1>3, CopiesAre
<1>8. ASSUME NEW x, x \in Buckets!Held
      PROVE  x \in Copies(LengthsOf(items))
  <2>1. PICK n \in DOMAIN items : \E i \in DOMAIN items[n].value : x = <<items[n].key, i>>
    BY <1>6, <1>8
  <2>2. PICK i \in DOMAIN items[n].value : x = <<items[n].key, i>>
    BY <2>1
  <2> DEFINE k == items[n].key
  <2>3. k \in Keys /\ k \in KeysOf(items) /\ items[n].value = ValueIn(items, k)
    BY <1>4
  <2> HIDE DEF k
  <2>4. LengthsOf(items)[k] = Len(ValueIn(items, k))
    BY <2>3 DEF LengthsOf
  <2>5. i \in 1 .. LengthsOf(items)[k]
    BY <1>1, <1>2, <2>2, <2>3, <2>4
  <2> QED BY <1>7, <2>2, <2>3, <2>5 DEF k
<1>9. ASSUME NEW x, x \in Copies(LengthsOf(items))
      PROVE  x \in Buckets!Held
  <2>1. PICK k \in Keys : \E i \in 1 .. LengthsOf(items)[k] : x = <<k, i>>
    BY <1>7, <1>9
  <2>2. PICK i \in 1 .. LengthsOf(items)[k] : x = <<k, i>>
    BY <2>1
  <2>3. k \in KeysOf(items) /\ LengthsOf(items)[k] = Len(ValueIn(items, k))
    BY <2>2 DEF LengthsOf
  <2>4. i \in DOMAIN ValueIn(items, k)
    BY <1>1, <1>2, <2>2, <2>3
  <2> QED BY <1>5, <1>6, <2>2, <2>3, <2>4
<1>10. Buckets!Held = Copies(LengthsOf(items))
  BY <1>8, <1>9
<1> QED BY <1>3, <1>10

(* What becomes of the counts when a bucket of length i is put at k.       *)
LEMMA BucketStored ==
    ASSUME BucketsInv, NEW k \in Keys, NEW b \in Full,
           items' = Stored(items, k, b), size' = (size - Len(BucketIn(items, k))) + Len(b)
    PROVE  BucketsInv'
<1>1. items' \in Maps(Keys, Full) /\ LengthsOf(items') = [LengthsOf(items) EXCEPT ![k] = Len(b)]
  BY StoredLen, Refilled DEF BucketsInv
<1>2. LengthsOf(items) \in [Keys -> Nat] /\ LengthsOf(items)[k] = Len(BucketIn(items, k))
  BY HeldIs DEF BucketsInv
<1>3. Len(b) \in Nat
  BY DEF Full
<1> DEFINE c == LengthsOf(items)
           d == LengthsOf(items')
           i == Len(b)
<1> HIDE DEF c, d, i
<1>4. /\ IsFiniteSet(Copies([c EXCEPT ![k] = i]))
      /\ Cardinality(Copies([c EXCEPT ![k] = i])) = (Cardinality(Copies(c)) - c[k]) + i
  BY <1>2, <1>3, Recounted DEF BucketsInv, c, i
<1> QED BY <1>1, <1>2, <1>4 DEF BucketsInv, c, d, i

LEMMA BucketDropped ==
    ASSUME BucketsInv, NEW k \in Keys,
           items' = Dropped(items, k), size' = size - Len(BucketIn(items, k))
    PROVE  BucketsInv'
<1>1. items' \in Maps(Keys, Full)
  BY DroppedIs DEF BucketsInv
<1>2. LengthsOf(items) \in [Keys -> Nat] /\ LengthsOf(items)[k] = Len(BucketIn(items, k))
  BY HeldIs DEF BucketsInv
<1>3. LengthsOf(items') = [LengthsOf(items) EXCEPT ![k] = 0]
  <2>1. CASE k \in KeysOf(items)
    BY <2>1, ValuesAre, Refilled DEF BucketsInv
  <2>2. CASE k \notin KeysOf(items)
    BY <1>2, <2>2 DEF Dropped, LengthsOf
  <2> QED BY <2>1, <2>2
<1> DEFINE c == LengthsOf(items)
           d == LengthsOf(items')
           none == 0
<1>4. none \in Nat /\ c \in [Keys -> Nat] /\ IsFiniteSet(Copies(c)) /\ size = Cardinality(Copies(c))
  BY <1>2 DEF BucketsInv
<1>5. d = [c EXCEPT ![k] = none] /\ c[k] = Len(BucketIn(items, k)) /\ none = 0
  BY <1>2, <1>3
<1> HIDE DEF c, d, none
<1>6. /\ IsFiniteSet(Copies([c EXCEPT ![k] = none]))
      /\ Cardinality(Copies([c EXCEPT ![k] = none])) = (Cardinality(Copies(c)) - c[k]) + none
      /\ Cardinality(Copies(c)) \in Nat
  BY <1>4, Recounted
<1>7. c[k] \in Nat
  BY <1>4
<1>8. IsFiniteSet(Copies(d)) /\ size' = Cardinality(Copies(d))
  BY <1>4, <1>5, <1>6, <1>7
<1> QED BY <1>1, <1>8 DEF BucketsInv, d

LEMMA BucketsNext ==
    ASSUME BucketsInv, Buckets!Next
    PROVE  BucketsInv'
<1>0. \A k \in Keys : k \in KeysOf(items) => BucketIn(items, k) \in Full /\ BucketIn(items, k) = ValueIn(items, k)
  BY ValuesAre DEF BucketsInv, BucketIn
<1>B. \A k : Buckets!Bucket(k) = BucketIn(items, k)
  BY BucketsIs DEF Buckets!Bucket, BucketIn
<1>S. \A k \in Keys : BucketIn(items, k) \in Seq(Values) /\ Len(BucketIn(items, k)) \in Nat
  BY <1>0 DEF BucketIn, Full
<1>N. size \in Nat
  BY FS_CardinalityType DEF BucketsInv
<1>1. CASE Buckets!Clear
  <2>1. items' = <<>> /\ size' = 0
    BY <1>1 DEF Buckets!Clear
  <2> QED BY <2>1, EmptyMaps, NoneCopied DEF BucketsInv
<1>2. ASSUME NEW k \in Keys, Buckets!Delete(k)
      PROVE  BucketsInv'
  <2>1. items' = Dropped(items, k) /\ size' = size - Len(BucketIn(items, k))
    BY <1>2, <1>B, BucketsIs DEF Buckets!Delete
  <2> QED BY <2>1, BucketDropped
<1>3. ASSUME NEW k \in Keys, NEW v \in Values, Buckets!Set(k, v)
      PROVE  BucketsInv'
  <2> DEFINE old == BucketIn(items, k)
             new == Append(old, v)
  <2>1. /\ Unique => \A i \in DOMAIN old : old[i] # v
        /\ items' = Stored(items, k, new)
        /\ size' = size + 1
    BY <1>3, <1>B, BucketsIs DEF Buckets!Set, Buckets!Range
  <2>2. old \in Seq(Values) /\ Len(old) \in Nat /\ (Unique => \A i, j \in DOMAIN old : old[i] = old[j] => i = j)
    BY <1>0, <1>S DEF BucketIn, Full, Good
  <2> HIDE DEF old
  <2>3. /\ new \in Seq(Values) /\ Len(new) = Len(old) + 1
        /\ \A i \in 1 .. Len(old) : new[i] = old[i]
        /\ new[Len(old) + 1] = v
    BY <2>2, AppendProperties
  <2>4. DOMAIN old = 1 .. Len(old) /\ DOMAIN new = 1 .. Len(old) + 1
    BY <2>2, <2>3
  <2> HIDE DEF new
  <2>5. new \in Full
    <3>1. new # <<>>
      BY <2>2, <2>3
    <3>2. ASSUME Unique, NEW i \in DOMAIN new, NEW j \in DOMAIN new, new[i] = new[j]
          PROVE  i = j
      BY <2>1, <2>2, <2>3, <2>4, <3>2
    <3> QED BY <2>3, <3>1, <3>2 DEF Full, Good
  <2>6. size' = (size - Len(old)) + Len(new)
    BY <1>N, <2>1, <2>2, <2>3
  <2> QED BY <2>1, <2>5, <2>6, BucketStored DEF old
<1>4. ASSUME NEW k \in Keys, NEW v \in Values, Buckets!RemoveValue(k, v)
      PROVE  BucketsInv'
  <2> DEFINE old == BucketIn(items, k)
             first == Buckets!FirstOf(old, v)
             new == Without(old, first)
  <2>1. /\ \E i \in DOMAIN old : old[i] = v
        /\ size' = size - 1
        /\ IF Len(old) = 1 THEN items' = Dropped(items, k) ELSE items' = Stored(items, k, new)
    BY <1>4, <1>B, BucketsIs DEF Buckets!RemoveValue, Buckets!Range, Buckets!RemoveAt, Without
  <2>2. old \in Seq(Values) /\ Len(old) \in Nat /\ DOMAIN old = 1 .. Len(old)
        /\ (Unique => \A i, j \in DOMAIN old : old[i] = old[j] => i = j)
    BY <1>0, <1>S DEF BucketIn, Full, Good
  <2>3. CASE Len(old) = 1
    BY <2>1, <2>3, BucketDropped
  <2>4. CASE Len(old) # 1
    <3>1. first \in DOMAIN old
      <4> HIDE DEF old
      <4> DEFINE S == {i \in DOMAIN old : old[i] = v}
      <4>1. S \subseteq Nat /\ S # {} /\ IsFiniteSet(S)
        <5>1. IsFiniteSet(1 .. Len(old)) /\ S \subseteq 1 .. Len(old)
          BY <2>2, FS_Interval
        <5> QED BY <2>1, <2>2, <5>1, FS_Subset
      <4>2. PICK i \in S : \A j \in S : i <= j
        BY <4>1, LeastOf
      <4>3. i \in DOMAIN old /\ old[i] = v /\ \A j \in 1 .. i - 1 : old[j] # v
        BY <2>2, <4>2
      <4> QED BY <4>3 DEF Buckets!FirstOf
    <3> DEFINE back(i) == IF i < first THEN i ELSE i + 1
    <3> HIDE DEF old, first
    <3>2. /\ new \in Seq(Values) /\ Len(new) = Len(old) - 1
          /\ \A i \in 1 .. Len(old) - 1 : new[i] = old[back(i)]
      <4>1. old \in Seq(Values) /\ first \in 1 .. Len(old)
        BY <2>2, <3>1
      <4> QED BY <4>1, Cut
    <3> HIDE DEF new
    <3>3. DOMAIN new = 1 .. Len(old) - 1
      BY <2>2, <3>2
    <3>4. new \in Full
      <4>1. new # <<>>
        BY <2>2, <2>4, <3>1, <3>2
      <4>2. ASSUME Unique, NEW i \in DOMAIN new, NEW j \in DOMAIN new, new[i] = new[j]
            PROVE  i = j
        <5>1. /\ back(i) \in DOMAIN old /\ back(j) \in DOMAIN old
              /\ i \in 1 .. Len(old) - 1 /\ j \in 1 .. Len(old) - 1
              /\ (back(i) = back(j) => i = j)
          BY <2>2, <3>1, <3>3
        <5> HIDE DEF back
        <5> QED BY <2>2, <3>2, <4>2, <5>1
      <4> QED BY <3>2, <4>1, <4>2 DEF Full, Good
    <3>5. size' = (size - Len(old)) + Len(new)
      BY <1>N, <2>1, <2>2, <3>2
    <3> QED BY <2>1, <2>4, <3>4, <3>5, BucketStored DEF old
  <2> QED BY <2>3, <2>4
<1>5. CASE Buckets!OpenWalk \/ Buckets!StepWalk
  BY <1>5 DEF Buckets!OpenWalk, Buckets!StepWalk, BucketsInv
<1> QED BY <1>1, <1>2, <1>3, <1>4, <1>5 DEF Buckets!Next

(* The size of a multimap is the number of its values, no key has an empty *)
(* bucket and no set a value twice, however values are added, removed one  *)
(* at a time and dropped with their keys.                                  *)
THEOREM BucketsCounted == Buckets!Spec => []Buckets!CountsExact
<1>1. Buckets!Init => BucketsInv
  BY EmptyMaps, NoneCopied DEF Buckets!Init, BucketsInv
<1>2. BucketsInv /\ [Buckets!Next]_Buckets!vars => BucketsInv'
  <2>1. BucketsInv /\ UNCHANGED Buckets!vars => BucketsInv'
    BY DEF BucketsInv, Buckets!vars
  <2> QED BY <2>1, BucketsNext
<1>3. BucketsInv => Buckets!CountsExact
  <2> SUFFICES ASSUME BucketsInv PROVE Buckets!CountsExact
    OBVIOUS
  <2>1. size = Buckets!Cardinality(Buckets!Held)
    <3>1. \A S : Buckets!Cardinality(S) = Cardinality(S)
      BY DEF Buckets!Cardinality, Cardinality
    <3> QED BY <3>1, HeldIs DEF BucketsInv
  <2>2. ASSUME NEW n \in DOMAIN items
        PROVE  items[n].value \in Full
    <3>1. items[n].key \in KeysOf(items) /\ Related(items, items[n].key, items[n].value)
      BY DEF KeysOf, Related
    <3> QED BY <3>1, ValuesAre, Placed DEF BucketsInv
  <2>3. ASSUME NEW n \in DOMAIN items
        PROVE  items[n].value # <<>> /\ (Unique => Buckets!IsInjective(items[n].value))
    <3> DEFINE bucket == items[n].value
    <3>1. Good(bucket)
      BY <2>2 DEF Full
    <3> HIDE DEF bucket
    <3>2. bucket # <<>> /\ (Unique => Buckets!IsInjective(bucket))
      BY <3>1, Zenon DEF Good, Buckets!IsInjective
    <3> QED BY <3>2 DEF bucket
  <2> QED BY <2>1, <2>3, Zenon DEF Buckets!CountsExact
<1> QED BY <1>1, <1>2, <1>3, PTL DEF Buckets!Spec

-----------------------------------------------------------------------------
(* A MultiSet, whose counts come from outside.                             *)

Above == Nat \ {0}

TotalIn(m) == Cardinality(Copies(CountsOf(m)))

CountIn(m, k) == IF k \in KeysOf(m) THEN ValueIn(m, k) ELSE 0

(* NaN is no number, and counts are numbers or NaN.                        *)
CountsSound == NaN \notin Int /\ Counts \subseteq Int \cup {NaN}

Accounted(counter, drifted, counted) ==
    \/ drifted = NaN /\ counter = NaN
    \/ drifted \in Int /\ counter = drifted + counted

MultiInv ==
    /\ items \in Maps(Keys, Above)
    /\ IsFiniteSet(Copies(CountsOf(items)))
    /\ Accounted(size, drift.size, TotalIn(items))
    /\ drift.dimension \in Int
    /\ dimension = Len(items) + drift.dimension

LEMMA MultiIs ==
    ASSUME NEW m
    PROVE  /\ Multi!Keys(m) = KeysOf(m)
           /\ \A k : Multi!ValueOf(m, k) = ValueIn(m, k)
           /\ \A k, v : Multi!Put(m, k, v) = Stored(m, k, v)
           /\ \A k : Multi!Drop(m, k) = Dropped(m, k)
  BY DEF Multi!Keys, Multi!PlaceOf, Multi!ValueOf, Multi!Put, Multi!Drop, Multi!RemoveAt,
         KeysOf, PlaceIn, ValueIn, Stored, Dropped, Without

LEMMA CountedAre ==
    ASSUME NEW m \in Maps(Keys, Above)
    PROVE  /\ Multi!Total(m) = TotalIn(m)
           /\ CountsOf(m) \in [Keys -> Nat]
           /\ \A k \in Keys : CountsOf(m)[k] = CountIn(m, k)
           /\ Len(m) \in Nat
           /\ \A k \in Keys : k \in KeysOf(m) => CountIn(m, k) \in Above
<1>1. \A k \in Keys : k \in KeysOf(m) => ValueIn(m, k) \in Above
  BY ValuesAre
<1>2. CountsOf(m) \in [Keys -> Nat] /\ \A k \in Keys : CountsOf(m)[k] = CountIn(m, k)
  BY <1>1 DEF CountsOf, CountIn, Above
<1>3. ASSUME NEW n \in DOMAIN m
      PROVE  m[n].key \in Keys /\ m[n].key \in KeysOf(m) /\ m[n].value = ValueIn(m, m[n].key)
  <2>1. m[n].key \in KeysOf(m)
    BY DEF KeysOf
  <2>2. Related(m, m[n].key, m[n].value)
    BY DEF Related
  <2> QED BY <2>1, <2>2, ValuesAre, Placed
<1>4. ASSUME NEW k \in Keys, k \in KeysOf(m)
      PROVE  \E n \in DOMAIN m : m[n].key = k /\ m[n].value = ValueIn(m, k)
  BY <1>4, Placed DEF Related
<1>5. ASSUME NEW x
      PROVE  x \in Multi!Copies(m) <=> \E n \in DOMAIN m : \E i \in 1 .. m[n].value : x = <<m[n].key, i>>
  BY DEF Multi!Copies
<1>6. ASSUME NEW x
      PROVE  x \in Copies(CountsOf(m)) <=> \E k \in Keys : \E i \in 1 .. CountsOf(m)[k] : x = <<k, i>>
  BY <1>2, CopiesAre
<1>7. ASSUME NEW x, x \in Multi!Copies(m)
      PROVE  x \in Copies(CountsOf(m))
  <2>1. PICK n \in DOMAIN m : \E i \in 1 .. m[n].value : x = <<m[n].key, i>>
    BY <1>5, <1>7
  <2>2. m[n].key \in Keys /\ m[n].value = CountsOf(m)[m[n].key]
    BY <1>3 DEF CountsOf
  <2> QED BY <1>6, <2>1, <2>2
<1>8. ASSUME NEW x, x \in Copies(CountsOf(m))
      PROVE  x \in Multi!Copies(m)
  <2>1. PICK k \in Keys : \E i \in 1 .. CountsOf(m)[k] : x = <<k, i>>
    BY <1>6, <1>8
  <2>2. PICK i \in 1 .. CountsOf(m)[k] : x = <<k, i>>
    BY <2>1
  <2>3. k \in KeysOf(m) /\ CountsOf(m)[k] = ValueIn(m, k)
    BY <2>2 DEF CountsOf
  <2>4. PICK n \in DOMAIN m : m[n].key = k /\ m[n].value = ValueIn(m, k)
    BY <1>4, <2>3
  <2> QED BY <1>5, <2>2, <2>3, <2>4
<1>9. Multi!Copies(m) = Copies(CountsOf(m))
  BY <1>7, <1>8
<1>10. \A S : Multi!Cardinality(S) = Cardinality(S)
  BY DEF Multi!Cardinality, Cardinality
<1> QED BY <1>1, <1>2, <1>9, <1>10, MapLen DEF Multi!Total, TotalIn, CountIn

(* What storing and dropping a count does to the total.                    *)
LEMMA CountStored ==
    ASSUME NEW m \in Maps(Keys, Above), IsFiniteSet(Copies(CountsOf(m))),
           NEW k \in Keys, NEW n \in Above
    PROVE  /\ Stored(m, k, n) \in Maps(Keys, Above)
           /\ IsFiniteSet(Copies(CountsOf(Stored(m, k, n))))
           /\ TotalIn(Stored(m, k, n)) = (TotalIn(m) - CountIn(m, k)) + n
           /\ Len(Stored(m, k, n)) = IF k \in KeysOf(m) THEN Len(m) ELSE Len(m) + 1
           /\ TotalIn(m) \in Nat /\ CountIn(m, k) \in Nat
<1> DEFINE c == CountsOf(m)
           new == Stored(m, k, n)
<1>1. /\ new \in Maps(Keys, Above)
      /\ Len(new) = IF k \in KeysOf(m) THEN Len(m) ELSE Len(m) + 1
      /\ CountsOf(new) = [c EXCEPT ![k] = n]
  BY StoredLen, Refilled
<1>2. c \in [Keys -> Nat] /\ c[k] = CountIn(m, k)
  BY CountedAre
<1>3. n \in Nat
  BY DEF Above
<1>4. IsFiniteSet(Copies(c)) /\ TotalIn(m) = Cardinality(Copies(c)) /\ TotalIn(new) = Cardinality(Copies(CountsOf(new)))
  BY DEF TotalIn
<1> HIDE DEF c, new
<1>5. /\ IsFiniteSet(Copies([c EXCEPT ![k] = n]))
      /\ Cardinality(Copies([c EXCEPT ![k] = n])) = (Cardinality(Copies(c)) - c[k]) + n
      /\ Cardinality(Copies(c)) \in Nat
  <2>1. c \in [Keys -> Nat]
    BY <1>2
  <2>2. n \in Nat
    BY <1>3
  <2>3. IsFiniteSet(Copies(c))
    BY <1>4
  <2> QED BY <2>1, <2>2, <2>3, Recounted
<1>6. c[k] \in Nat
  BY <1>2
<1> QED BY <1>1, <1>2, <1>4, <1>5, <1>6 DEF new

LEMMA CountDropped ==
    ASSUME NEW m \in Maps(Keys, Above), IsFiniteSet(Copies(CountsOf(m))), NEW k \in Keys
    PROVE  /\ Dropped(m, k) \in Maps(Keys, Above)
           /\ IsFiniteSet(Copies(CountsOf(Dropped(m, k))))
           /\ TotalIn(Dropped(m, k)) = TotalIn(m) - CountIn(m, k)
           /\ Len(Dropped(m, k)) = IF k \in KeysOf(m) THEN Len(m) - 1 ELSE Len(m)
           /\ TotalIn(m) \in Nat /\ CountIn(m, k) \in Nat
<1> DEFINE c == CountsOf(m)
           new == Dropped(m, k)
           none == 0
<1>1. /\ new \in Maps(Keys, Above)
      /\ Len(new) = IF k \in KeysOf(m) THEN Len(m) - 1 ELSE Len(m)
  BY DroppedIs
<1>2. CountsOf(new) = [c EXCEPT ![k] = none]
  <2>1. CASE k \in KeysOf(m)
    BY <2>1, ValuesAre, Refilled
  <2>2. CASE k \notin KeysOf(m)
    BY <2>2 DEF Dropped, CountsOf
  <2> QED BY <2>1, <2>2
<1>3. c \in [Keys -> Nat] /\ c[k] = CountIn(m, k) /\ none \in Nat /\ none = 0
  BY CountedAre
<1>4. IsFiniteSet(Copies(c)) /\ TotalIn(m) = Cardinality(Copies(c)) /\ TotalIn(new) = Cardinality(Copies(CountsOf(new)))
  BY DEF TotalIn
<1> HIDE DEF c, new, none
<1>5. /\ IsFiniteSet(Copies([c EXCEPT ![k] = none]))
      /\ Cardinality(Copies([c EXCEPT ![k] = none])) = (Cardinality(Copies(c)) - c[k]) + none
      /\ Cardinality(Copies(c)) \in Nat
  <2>1. c \in [Keys -> Nat]
    BY <1>3
  <2>2. none \in Nat
    BY <1>3
  <2>3. IsFiniteSet(Copies(c))
    BY <1>4
  <2> QED BY <2>1, <2>2, <2>3, Recounted
<1>6. c[k] \in Nat
  BY <1>3
<1> QED BY <1>1, <1>2, <1>3, <1>4, <1>5, <1>6 DEF new

(* A counter and what it counts moving by the same.                        *)
LEMMA AccountKept ==
    ASSUME NaN \notin Int, NEW counter, NEW drifted, NEW total \in Int, NEW n \in Int,
           Accounted(counter, drifted, total)
    PROVE  Accounted(Multi!Plus(counter, n), drifted, total + n)
  BY DEF Accounted, Multi!Plus

LEMMA MultiPut ==
    ASSUME CountsSound, MultiInv, NEW k \in Keys, NEW n \in Above, Multi!PutIn(k, n)
    PROVE  MultiInv'
<1> DEFINE old == CountIn(items, k)
           new == old + n
<1>1. /\ items' = Stored(items, k, new)
      /\ size' = Multi!Plus(size, n)
      /\ dimension' = IF k \in KeysOf(items) THEN dimension ELSE dimension + 1
      /\ drift' = drift
  BY MultiIs DEF Multi!PutIn, Multi!Multiplicity, CountIn
<1>2. old \in Nat /\ TotalIn(items) \in Nat /\ Len(items) \in Nat
  BY CountDropped, CountedAre DEF MultiInv
<1> HIDE DEF old
<1>3. new \in Above /\ n \in Int /\ new = old + n
  BY <1>2 DEF Above
<1> HIDE DEF new
<1>4. /\ items' \in Maps(Keys, Above)
      /\ IsFiniteSet(Copies(CountsOf(items')))
      /\ TotalIn(items') = (TotalIn(items) - old) + new
      /\ Len(items') = IF k \in KeysOf(items) THEN Len(items) ELSE Len(items) + 1
  BY <1>1, <1>3, CountStored DEF MultiInv, old
<1>5. TotalIn(items') = TotalIn(items) + n /\ TotalIn(items) \in Int
  BY <1>2, <1>3, <1>4
<1>6. Accounted(size', drift.size, TotalIn(items) + n)
  BY <1>1, <1>3, <1>5, AccountKept DEF MultiInv, CountsSound
<1>7. dimension' = Len(items') + drift.dimension
  BY <1>1, <1>2, <1>4 DEF MultiInv
<1> QED BY <1>1, <1>4, <1>5, <1>6, <1>7 DEF MultiInv

LEMMA MultiDrop ==
    ASSUME CountsSound, MultiInv, NEW k \in Keys, k \in KeysOf(items),
           items' = Dropped(items, k), size' = Multi!Plus(size, -CountIn(items, k)),
           dimension' = dimension - 1, drift' = drift
    PROVE  MultiInv'
<1> DEFINE old == CountIn(items, k)
<1>1. /\ items' \in Maps(Keys, Above)
      /\ IsFiniteSet(Copies(CountsOf(items')))
      /\ TotalIn(items') = TotalIn(items) - old
      /\ Len(items') = Len(items) - 1
      /\ TotalIn(items) \in Nat /\ old \in Nat /\ Len(items) \in Nat
  BY CountDropped, CountedAre DEF MultiInv
<1>2. size' = Multi!Plus(size, -old)
  OBVIOUS
<1> HIDE DEF old
<1>3. -old \in Int /\ TotalIn(items) \in Int /\ TotalIn(items') = TotalIn(items) + -old
  BY <1>1
<1>4. Accounted(size', drift.size, TotalIn(items) + -old)
  BY <1>2, <1>3, AccountKept DEF MultiInv, CountsSound
<1>5. dimension' = Len(items') + drift.dimension
  BY <1>1 DEF MultiInv
<1> QED BY <1>1, <1>3, <1>4, <1>5 DEF MultiInv

LEMMA MultiTake ==
    ASSUME CountsSound, MultiInv, NEW k \in Keys, NEW n \in Above, Multi!TakeOut(k, n)
    PROVE  MultiInv'
<1> DEFINE old == CountIn(items, k)
           new == old - n
<1>1. /\ k \in KeysOf(items)
      /\ size' = Multi!Plus(size, -(IF old <= n THEN old ELSE n))
      /\ IF old <= n
         THEN items' = Dropped(items, k) /\ dimension' = dimension - 1
         ELSE items' = Stored(items, k, new) /\ dimension' = dimension
      /\ drift' = drift
  BY MultiIs DEF Multi!TakeOut, Multi!Taken, Multi!Multiplicity, CountIn
<1>2. old \in Nat /\ TotalIn(items) \in Nat /\ Len(items) \in Nat
  BY CountDropped, CountedAre DEF MultiInv
<1>3. CASE old <= n
  BY <1>1, <1>3, MultiDrop
<1>4. CASE ~(old <= n)
  <2>1. items' = Stored(items, k, new) /\ dimension' = dimension /\ size' = Multi!Plus(size, -n)
    BY <1>1, <1>4
  <2> HIDE DEF old
  <2>2. new \in Above /\ -n \in Int /\ n \in Nat /\ new = old - n
    BY <1>2, <1>4 DEF Above
  <2> HIDE DEF new
  <2>3. /\ items' \in Maps(Keys, Above)
        /\ IsFiniteSet(Copies(CountsOf(items')))
        /\ TotalIn(items') = (TotalIn(items) - old) + new
        /\ Len(items') = Len(items)
    BY <1>1, <2>1, <2>2, CountStored DEF MultiInv, old
  <2>4. TotalIn(items') = TotalIn(items) + -n /\ TotalIn(items) \in Int
    BY <1>2, <2>2, <2>3
  <2>5. Accounted(size', drift.size, TotalIn(items) + -n)
    BY <2>1, <2>2, <2>4, AccountKept DEF MultiInv, CountsSound
  <2>6. dimension' = Len(items') + drift.dimension
    BY <2>1, <2>3 DEF MultiInv
  <2> QED BY <1>1, <2>3, <2>4, <2>5, <2>6 DEF MultiInv
<1> QED BY <1>3, <1>4

LEMMA MultiEdit ==
    ASSUME CountsSound, MultiInv, NEW a \in Keys, NEW b \in Keys, Multi!Edit(a, b)
    PROVE  MultiInv'
<1> DEFINE sum == CountIn(items, a) + CountIn(items, b)
           written == Stored(items, b, sum)
<1>1. /\ a \in KeysOf(items)
      /\ items' = Dropped(written, a)
      /\ drift' = [size |-> Multi!Plus(drift.size, Multi!Total(items) - Multi!Total(items')),
                   dimension |-> drift.dimension + Len(items) - Len(items')]
      /\ size' = size /\ dimension' = dimension
  BY MultiIs DEF Multi!Edit, Multi!Multiplicity, CountIn
<1>2. sum \in Above
  <2>1. CountIn(items, a) \in Above /\ CountIn(items, b) \in Nat
    BY <1>1, CountDropped, CountedAre DEF MultiInv
  <2> QED BY <2>1 DEF Above
<1> HIDE DEF sum
<1>3. written \in Maps(Keys, Above) /\ IsFiniteSet(Copies(CountsOf(written)))
  BY <1>2, CountStored DEF MultiInv
<1> HIDE DEF written
<1>4. items' \in Maps(Keys, Above) /\ IsFiniteSet(Copies(CountsOf(items')))
  BY <1>1, <1>3, CountDropped
<1>5. /\ Multi!Total(items) = TotalIn(items) /\ Multi!Total(items') = TotalIn(items')
      /\ TotalIn(items) \in Int /\ TotalIn(items') \in Int /\ Len(items) \in Int /\ Len(items') \in Int
  BY <1>4, CountedAre, CountDropped DEF MultiInv
<1>6. /\ drift'.size = Multi!Plus(drift.size, TotalIn(items) - TotalIn(items'))
      /\ drift'.dimension = drift.dimension + Len(items) - Len(items')
  BY <1>1, <1>5
<1>7. Accounted(size', drift'.size, TotalIn(items'))
  BY <1>1, <1>5, <1>6 DEF MultiInv, Accounted, CountsSound, Multi!Plus
<1>8. drift'.dimension \in Int /\ dimension' = Len(items') + drift'.dimension
  BY <1>1, <1>5, <1>6 DEF MultiInv
<1> QED BY <1>4, <1>7, <1>8 DEF MultiInv

LEMMA MultiNext ==
    ASSUME CountsSound, MultiInv, Multi!Next
    PROVE  MultiInv'
<1>N. ASSUME NEW n \in Counts
      PROVE  /\ n # 0 /\ ~Multi!Negative(n) => Multi!Count(n) \in Above
             /\ Multi!Negative(n) => -n \in Above
  BY DEF CountsSound, Multi!Negative, Multi!Count, Above
<1>M. \A k : Multi!Multiplicity(k) = CountIn(items, k)
  BY MultiIs DEF Multi!Multiplicity, CountIn
<1>D. ASSUME NEW k \in Keys, k \in KeysOf(items), Multi!DropOut(k)
      PROVE  MultiInv'
  BY <1>D, <1>M, MultiIs, MultiDrop DEF Multi!DropOut
<1>1. CASE Multi!Clear
  <2>1. items' = <<>> /\ size' = 0 /\ dimension' = 0 /\ drift' = [size |-> 0, dimension |-> 0]
    BY <1>1 DEF Multi!Clear, Multi!NoDrift
  <2>2. items' \in Maps(Keys, Above) /\ Len(items') = 0
        /\ IsFiniteSet(Copies(CountsOf(items'))) /\ TotalIn(items') = 0
    BY <2>1, EmptyMaps, NoneCopied DEF TotalIn
  <2> QED BY <2>1, <2>2 DEF MultiInv, Accounted
<1>2. ASSUME NEW k \in Keys, NEW n \in Counts,
             \/ Multi!Add(k, n) \/ Multi!AddNegative(k, n)
             \/ Multi!RemoveItem(k, n) \/ Multi!RemoveNegative(k, n)
             \/ Multi!Set(k, n) \/ Multi!SetToNothing(k, n)
      PROVE  MultiInv'
  <2>1. CASE Multi!Add(k, n) \/ Multi!Set(k, n)
    BY <1>N, <2>1, MultiPut DEF Multi!Add, Multi!Set
  <2>2. CASE Multi!RemoveNegative(k, n)
    BY <1>N, <2>2, MultiPut DEF Multi!RemoveNegative
  <2>3. CASE Multi!AddNegative(k, n)
    BY <1>N, <2>3, MultiTake DEF Multi!AddNegative
  <2>4. CASE Multi!RemoveItem(k, n)
    BY <1>N, <2>4, MultiTake DEF Multi!RemoveItem
  <2>5. CASE Multi!SetToNothing(k, n)
    BY <1>D, <2>5, MultiIs DEF Multi!SetToNothing
  <2> QED BY <1>2, <2>1, <2>2, <2>3, <2>4, <2>5
<1>3. ASSUME NEW k \in Keys, Multi!Delete(k)
      PROVE  MultiInv'
  BY <1>3, <1>D, MultiIs DEF Multi!Delete
<1>4. ASSUME NEW k \in Keys, Multi!DeleteAbsent(k)
      PROVE  MultiInv'
  <2>1. /\ items' = items /\ size' = NaN /\ dimension' = dimension - 1
        /\ drift'.size = NaN /\ drift'.dimension = drift.dimension - 1
    BY <1>4 DEF Multi!DeleteAbsent
  <2>2. Len(items) \in Int
    BY CountedAre DEF MultiInv
  <2>3. Accounted(size', drift'.size, TotalIn(items'))
    BY <2>1 DEF Accounted
  <2>4. drift'.dimension \in Int /\ dimension' = Len(items') + drift'.dimension
    BY <2>1, <2>2 DEF MultiInv
  <2> QED BY <2>1, <2>3, <2>4 DEF MultiInv
<1>5. ASSUME NEW a \in Keys, NEW b \in Keys, Multi!Edit(a, b)
      PROVE  MultiInv'
  BY <1>5, MultiEdit
<1>6. CASE Multi!OpenWalk \/ Multi!StepWalk
  BY <1>6 DEF Multi!OpenWalk, Multi!StepWalk, MultiInv
<1> QED BY <1>1, <1>2, <1>3, <1>4, <1>5, <1>6 DEF Multi!Next

LEMMA MultiInductive ==
    ASSUME CountsSound
    PROVE  Multi!Spec => []MultiInv
<1>1. Multi!Init => MultiInv
  <2> SUFFICES ASSUME Multi!Init PROVE MultiInv
    OBVIOUS
  <2>1. items = <<>> /\ size = 0 /\ dimension = 0 /\ drift = [size |-> 0, dimension |-> 0]
    BY DEF Multi!Init, Multi!NoDrift
  <2>2. items \in Maps(Keys, Above) /\ Len(items) = 0
        /\ IsFiniteSet(Copies(CountsOf(items))) /\ TotalIn(items) = 0
    BY <2>1, EmptyMaps, NoneCopied DEF TotalIn
  <2> QED BY <2>1, <2>2 DEF MultiInv, Accounted
<1>2. MultiInv /\ [Multi!Next]_Multi!vars => MultiInv'
  <2>1. MultiInv /\ UNCHANGED Multi!vars => MultiInv'
    BY DEF MultiInv, Multi!vars
  <2> QED BY <2>1, MultiNext
<1> QED BY <1>1, <1>2, PTL DEF Multi!Spec

(* No item is counted at zero or less, and the size and the dimension of a *)
(* multiset differ from the map by what edits and deletions of absent      *)
(* items made of them, whatever numbers or NaN were added, removed or set. *)
THEOREM MultiCounted ==
    ASSUME CountsSound
    PROVE  Multi!Spec => []Multi!CountsAccounted
<1>1. MultiInv => Multi!CountsAccounted
  <2> SUFFICES ASSUME MultiInv PROVE Multi!CountsAccounted
    OBVIOUS
  <2>1. Multi!Total(items) = TotalIn(items)
    BY CountedAre DEF MultiInv
  <2>2. size = Multi!Plus(drift.size, Multi!Total(items))
    BY <2>1 DEF MultiInv, Accounted, Multi!Plus, CountsSound
  <2>3. ASSUME NEW n \in DOMAIN items
        PROVE  items[n].value > 0
    <3>1. items[n].key \in KeysOf(items) /\ Related(items, items[n].key, items[n].value)
      BY DEF KeysOf, Related
    <3>2. items[n].value \in Above
      BY <3>1, ValuesAre, Placed DEF MultiInv
    <3> QED BY <3>2 DEF Above
  <2> QED BY <2>2, <2>3 DEF MultiInv, Multi!CountsAccounted
<1> QED BY <1>1, MultiInductive, PTL

(* There are as many keys as entries.                                      *)
LEMMA KeysCounted ==
    ASSUME NEW V, NEW m \in Maps(Keys, V)
    PROVE  Cardinality(KeysOf(m)) = Len(m)
<1> DEFINE f == [i \in 1 .. Len(m) |-> m[i].key]
           keys == KeysOf(m)
<1>1. DOMAIN m = 1 .. Len(m) /\ Len(m) \in Nat /\ \A i, j \in DOMAIN m : m[i].key = m[j].key => i = j
  BY DEF Maps
<1>2. f \in [1 .. Len(m) -> keys]
  BY <1>1 DEF KeysOf
<1>3. \A i, j \in 1 .. Len(m) : f[i] = f[j] => i = j
  BY <1>1
<1>4. \A k \in keys : \E i \in 1 .. Len(m) : f[i] = k
  BY <1>1 DEF KeysOf
<1> HIDE DEF f, keys
<1>5. f \in Bijection(1 .. Len(m), keys)
  BY <1>2, <1>3, <1>4 DEF Bijection, Injection, Surjection, IsInjective
<1>6. IsFiniteSet(1 .. Len(m)) /\ Cardinality(1 .. Len(m)) = Len(m)
  BY <1>1, FS_Interval
<1>7. Cardinality(keys) = Cardinality(1 .. Len(m))
  BY <1>5, <1>6, FS_Bijection DEF ExistsBijection
<1> QED BY <1>6, <1>7 DEF keys

(* What a multiset says is within another is, and what is is said to be    *)
(* unless an edit has left the dimension too high.                         *)
THEOREM MultiCompared ==
    ASSUME CountsSound, IsFiniteSet(Keys)
    PROVE  Multi!Spec => []Multi!SubsetExact
<1>1. ASSUME MultiInv, NEW bag \in [Keys -> 0 .. MaxTotal],
             \A n \in DOMAIN items : items[n].value <= bag[items[n].key],
             drift.dimension <= 0
      PROVE  dimension <= Multi!Cardinality({x \in Keys : bag[x] > 0})
  <2> DEFINE S == {x \in Keys : bag[x] > 0}
  <2>1. KeysOf(items) \subseteq S
    <3> SUFFICES ASSUME NEW k \in KeysOf(items) PROVE k \in S
      OBVIOUS
    <3>1. PICK n \in DOMAIN items : items[n].key = k
      BY DEF KeysOf
    <3>2. Related(items, k, items[n].value)
      BY <3>1 DEF Related
    <3>3. k \in Keys /\ items[n].value \in Above
      BY <1>1, <3>2, ValuesAre, Placed DEF MultiInv
    <3>4. bag[k] \in Int /\ items[n].value <= bag[k]
      BY <1>1, <3>1, <3>3
    <3> QED BY <3>3, <3>4 DEF Above
  <2>2. IsFiniteSet(S)
    <3>1. S \subseteq Keys
      OBVIOUS
    <3> QED BY <3>1, FS_Subset
  <2> HIDE DEF S
  <2>3. Cardinality(KeysOf(items)) <= Cardinality(S) /\ Cardinality(S) \in Nat
    BY <2>1, <2>2, FS_Subset, FS_CardinalityType
  <2>4. Len(items) <= Cardinality(S) /\ Len(items) \in Nat
    BY <1>1, <2>3, KeysCounted, MapLen DEF MultiInv
  <2>5. dimension <= Cardinality(S)
    BY <1>1, <2>3, <2>4 DEF MultiInv
  <2>6. Multi!Cardinality(S) = Cardinality(S)
    BY DEF Multi!Cardinality, Cardinality
  <2> QED BY <2>5, <2>6 DEF S
<1>2. MultiInv => Multi!SubsetExact
  <2> SUFFICES ASSUME MultiInv, NEW bag \in [Keys -> 0 .. MaxTotal]
               PROVE  LET bagDimension == Multi!Cardinality({x \in Keys : bag[x] > 0})
                          within == \A n \in DOMAIN items : items[n].value <= bag[items[n].key]
                          said == Multi!IsSubset(items, dimension, bag, bagDimension)
                      IN  (said => within) /\ (within /\ drift.dimension <= 0 => said)
    BY Zenon DEF Multi!SubsetExact
  <2> QED BY <1>1, Zenon DEF Multi!IsSubset
<1> QED BY <1>2, MultiInductive, PTL

-----------------------------------------------------------------------------
(* A MultiArray, growing or fixed.                                         *)

ArraySound == Indices \subseteq Nat /\ Capacity \in Nat

(* The items of a container.                                               *)
Of(box) == {n \in 1 .. size : arrivals[n] = box}

Roomy(array) == array \in Seq(Nat) /\ Len(array) = IF Fixed THEN Capacity ELSE size

(* The last item of a container is its tail, and every item but the first  *)
(* points to the one before it.                                            *)
TailsLast ==
    \A n \in 1 .. size :
        LET tail == tails[arrivals[n] + 1] + 1
        IN  tail \in n .. size /\ arrivals[tail] = arrivals[n]

PointersBack ==
    \A n \in 1 .. size : \A m \in 1 .. n - 1 :
        arrivals[m] = arrivals[n] =>
            /\ pointers[n] + 1 \in m .. n - 1
            /\ arrivals[pointers[n] + 1] = arrivals[n]

ArrayShape ==
    /\ size \in Nat /\ dimension \in Nat /\ size <= Capacity
    /\ Roomy(storage) /\ Roomy(pointers)
    /\ tails \in Seq(Nat) /\ Len(tails) = dimension
    /\ lengths \in Seq(Nat) /\ Len(lengths) = dimension
    /\ arrivals \in Seq(Nat) /\ Len(arrivals) = size
    /\ \A n \in 1 .. size : storage[n] = n /\ arrivals[n] < dimension

LengthsCount ==
    \A box \in 0 .. dimension - 1 : lengths[box + 1] = Cardinality(Of(box))

ArrayInv == ArrayShape /\ LengthsCount /\ TailsLast /\ PointersBack

(* An array after one more was written to it.                              *)
LEMMA WrittenIs ==
    ASSUME size \in Nat, Capacity \in Nat, size < Capacity, NEW array, Roomy(array), NEW v \in Nat, size' = size + 1
    PROVE  /\ Array!Written(array, v) \in Seq(Nat)
           /\ Len(Array!Written(array, v)) = IF Fixed THEN Capacity ELSE size + 1
           /\ Array!Written(array, v)[size + 1] = v
           /\ \A n \in 1 .. size : Array!Written(array, v)[n] = array[n]
<1> DEFINE new == Array!Written(array, v)
           last == size + 1
<1>1. array \in Seq(Nat) /\ Len(array) = IF Fixed THEN Capacity ELSE size
  BY DEF Roomy
<1>2. CASE Fixed
  <2>1. new = [array EXCEPT ![last] = v] /\ last \in 1 .. Len(array) /\ Len(array) = Capacity
        /\ DOMAIN array = 1 .. Len(array) /\ last = size + 1
    BY <1>1, <1>2 DEF Array!Written
  <2> HIDE DEF new, last
  <2>2. new \in Seq(Nat) /\ Len(new) = Len(array)
    BY <1>1, <2>1, ExceptSeq
  <2>3. new[last] = v /\ \A n \in 1 .. size : new[n] = array[n]
    BY <2>1
  <2> QED BY <1>2, <2>1, <2>2, <2>3 DEF new, last
<1>3. CASE ~Fixed
  <2>1. new = Append(array, v) /\ Len(array) = size
    BY <1>1, <1>3 DEF Array!Written
  <2> HIDE DEF new
  <2>2. /\ new \in Seq(Nat) /\ Len(new) = Len(array) + 1
        /\ \A n \in 1 .. Len(array) : new[n] = array[n]
        /\ new[Len(array) + 1] = v
    BY <1>1, <2>1, AppendProperties
  <2> QED BY <1>3, <2>1, <2>2 DEF new
<1> QED BY <1>2, <1>3

(* A vector grown by a gap of zeros and one more.                          *)
LEMMA GrownIs ==
    ASSUME NEW s \in Seq(Nat), NEW gap \in Nat, NEW v \in Nat
    PROVE  /\ Append(s \o Array!Zeros(gap), v) \in Seq(Nat)
           /\ Len(Append(s \o Array!Zeros(gap), v)) = Len(s) + gap + 1
           /\ Append(s \o Array!Zeros(gap), v)[Len(s) + gap + 1] = v
           /\ \A i \in 1 .. Len(s) : Append(s \o Array!Zeros(gap), v)[i] = s[i]
           /\ \A i \in Len(s) + 1 .. Len(s) + gap : Append(s \o Array!Zeros(gap), v)[i] = 0
<1> DEFINE z == Array!Zeros(gap)
           t == s \o z
           new == Append(t, v)
<1>1. z \in Seq(Nat) /\ Len(z) = gap /\ \A i \in 1 .. gap : z[i] = 0
  <2>1. z = [i \in 1 .. gap |-> 0]
    BY DEF Array!Zeros
  <2> QED BY <2>1
<1> DEFINE N == Nat
<1>N. s \in Seq(N) /\ z \in Seq(N) /\ v \in N
  BY <1>1
<1> HIDE DEF z, N
<1>2. /\ t \in Seq(N) /\ Len(t) = Len(s) + Len(z)
      /\ \A i \in 1 .. Len(s) + Len(z) : t[i] = IF i <= Len(s) THEN s[i] ELSE z[i - Len(s)]
  BY <1>N, ConcatProperties
<1> HIDE DEF t
<1>3. /\ new \in Seq(N) /\ Len(new) = Len(t) + 1
      /\ \A i \in 1 .. Len(t) : new[i] = t[i]
      /\ new[Len(t) + 1] = v
  BY <1>N, <1>2, AppendProperties
<1> HIDE DEF new
<1>5. new \in Seq(Nat)
  BY <1>3 DEF N
<1>4. Len(s) \in Nat
  OBVIOUS
<1> QED BY <1>1, <1>2, <1>3, <1>4, <1>5 DEF new, t, z

(* The containers when one more item comes to one of them.                 *)
LEMMA OneMore ==
    ASSUME size \in Nat, arrivals \in Seq(Nat), Len(arrivals) = size, NEW box \in Nat,
           size' = size + 1, arrivals' = Append(arrivals, box)
    PROVE  /\ arrivals' \in Seq(Nat) /\ Len(arrivals') = size + 1
           /\ arrivals'[size + 1] = box
           /\ \A n \in 1 .. size : arrivals'[n] = arrivals[n]
           /\ \A j : Cardinality(Of(j)) \in Nat
           /\ Cardinality(Of(box)') = Cardinality(Of(box)) + 1
           /\ \A j : j # box => Of(j)' = Of(j)
<1> DEFINE N == Nat
<1>1. arrivals \in Seq(N) /\ box \in N
  OBVIOUS
<1> HIDE DEF N
<1>2. /\ arrivals' \in Seq(N) /\ Len(arrivals') = size + 1
      /\ \A n \in 1 .. size : arrivals'[n] = arrivals[n]
      /\ arrivals'[size + 1] = box
  BY <1>1, AppendProperties
<1>3. arrivals' \in Seq(Nat)
  BY <1>2 DEF N
<1>4. \A j : IsFiniteSet(Of(j)) /\ Cardinality(Of(j)) \in Nat
  <2> TAKE j
  <2>1. Of(j) \subseteq 1 .. size
    BY DEF Of
  <2>2. IsFiniteSet(1 .. size)
    BY FS_Interval
  <2> QED BY <2>1, <2>2, FS_Subset, FS_CardinalityType
<1>5. size + 1 \notin Of(box)
  BY DEF Of
<1>6. Of(box)' = Of(box) \cup {size + 1}
  BY <1>2 DEF Of
<1>7. Cardinality(Of(box)') = Cardinality(Of(box)) + 1
  BY <1>4, <1>5, <1>6, FS_AddElement
<1>8. \A j : j # box => Of(j)' = Of(j)
  BY <1>2 DEF Of
<1> QED BY <1>2, <1>3, <1>4, <1>7, <1>8

LEMMA ArrayPlaced ==
    ASSUME ArraySound, ArrayInv, NEW box \in Nat, box < dimension,
           Array!Stored(box), Array!Place(box)
    PROVE  ArrayInv'
<1> DEFINE at == box + 1
           new == size + 1
<1>0. /\ size \in Nat /\ dimension \in Nat /\ size < Capacity /\ Capacity \in Nat
      /\ Roomy(storage) /\ Roomy(pointers)
      /\ tails \in Seq(Nat) /\ Len(tails) = dimension
      /\ lengths \in Seq(Nat) /\ Len(lengths) = dimension
      /\ arrivals \in Seq(Nat) /\ Len(arrivals) = size
      /\ \A n \in 1 .. size : storage[n] = n /\ arrivals[n] < dimension
  BY DEF ArrayInv, ArrayShape, Array!Stored, ArraySound
<1>1. /\ storage' = Array!Written(storage, size + 1) /\ size' = size + 1
      /\ arrivals' = Append(arrivals, box)
      /\ pointers' = Array!Written(pointers, tails[at])
      /\ tails' = [tails EXCEPT ![at] = size]
      /\ lengths' = [lengths EXCEPT ![at] = lengths[at] + 1]
      /\ dimension' = dimension
  BY DEF Array!Stored, Array!Place
<1>2. at \in 1 .. dimension /\ tails[at] \in Nat /\ lengths[at] \in Nat
      /\ \A n \in 1 .. size : arrivals[n] \in Nat /\ arrivals[n] + 1 \in 1 .. dimension
  <2>1. at \in 1 .. dimension
    BY <1>0
  <2>2. tails[at] \in Nat /\ lengths[at] \in Nat
    <3> HIDE DEF at
    <3> QED BY <1>0, <2>1
  <2>3. \A n \in 1 .. size : arrivals[n] \in Nat
    BY <1>0
  <2>4. \A n \in 1 .. size : arrivals[n] + 1 \in 1 .. dimension
    BY <1>0, <2>3
  <2> QED BY <2>1, <2>2, <2>3, <2>4
<1>3. /\ storage' \in Seq(Nat) /\ Len(storage') = IF Fixed THEN Capacity ELSE size'
      /\ storage'[new] = new /\ \A n \in 1 .. size : storage'[n] = storage[n]
  <2>1. new \in Nat
    BY <1>0
  <2>2. storage' = Array!Written(storage, new) /\ size' = size + 1
    BY <1>1
  <2> HIDE DEF new
  <2>3. /\ Array!Written(storage, new) \in Seq(Nat)
        /\ Len(Array!Written(storage, new)) = IF Fixed THEN Capacity ELSE size + 1
        /\ Array!Written(storage, new)[size + 1] = new
        /\ \A n \in 1 .. size : Array!Written(storage, new)[n] = storage[n]
    BY <1>0, <2>1, <2>2, WrittenIs
  <2> QED BY <2>2, <2>3 DEF new
<1>4. /\ pointers' \in Seq(Nat) /\ Len(pointers') = IF Fixed THEN Capacity ELSE size'
      /\ pointers'[new] = tails[at] /\ \A n \in 1 .. size : pointers'[n] = pointers[n]
  <2> DEFINE v == tails[at]
  <2>1. v \in Nat
    BY <1>2
  <2>2. pointers' = Array!Written(pointers, v) /\ size' = size + 1
    BY <1>1
  <2> HIDE DEF v
  <2>3. /\ Array!Written(pointers, v) \in Seq(Nat)
        /\ Len(Array!Written(pointers, v)) = IF Fixed THEN Capacity ELSE size + 1
        /\ Array!Written(pointers, v)[size + 1] = v
        /\ \A n \in 1 .. size : Array!Written(pointers, v)[n] = pointers[n]
    BY <1>0, <2>1, <2>2, WrittenIs
  <2> QED BY <2>2, <2>3 DEF v
<1>5. /\ tails' \in Seq(Nat) /\ Len(tails') = dimension
      /\ \A i \in 1 .. dimension : tails'[i] = IF i = at THEN size ELSE tails[i]
  BY <1>0, <1>1, <1>2, ExceptSeq
<1>6. /\ lengths' \in Seq(Nat) /\ Len(lengths') = dimension
      /\ \A i \in 1 .. dimension : lengths'[i] = IF i = at THEN lengths[at] + 1 ELSE lengths[i]
  BY <1>0, <1>1, <1>2, ExceptSeq
<1>7. /\ arrivals' \in Seq(Nat) /\ Len(arrivals') = size + 1
      /\ arrivals'[new] = box
      /\ \A n \in 1 .. size : arrivals'[n] = arrivals[n]
      /\ \A j : Cardinality(Of(j)) \in Nat
      /\ Cardinality(Of(box)') = Cardinality(Of(box)) + 1
      /\ \A j : j # box => Of(j)' = Of(j)
  BY <1>0, <1>1, OneMore
<1>S. size' = size + 1 /\ dimension' = dimension
  BY <1>1
<1>8. ArrayShape'
  <2>1. Roomy(storage)' /\ Roomy(pointers)'
    BY <1>S, <1>3, <1>4 DEF Roomy
  <2>2. \A n \in 1 .. size + 1 : storage'[n] = n /\ arrivals'[n] < dimension
    <3> TAKE n \in 1 .. size + 1
    <3>1. CASE n = new
      BY <1>3, <1>7, <3>1
    <3>2. CASE n \in 1 .. size
      BY <1>0, <1>3, <1>7, <3>2
    <3> QED BY <1>0, <3>1, <3>2
  <2>3. size' \in Nat /\ size' <= Capacity
    BY <1>0, <1>S
  <2> QED BY <1>0, <1>S, <1>5, <1>6, <1>7, <2>1, <2>2, <2>3 DEF ArrayShape
<1>9. LengthsCount'
  <2> SUFFICES ASSUME NEW j \in 0 .. dimension - 1 PROVE lengths'[j + 1] = Cardinality(Of(j)')
    BY <1>S DEF LengthsCount
  <2>1. lengths[j + 1] = Cardinality(Of(j)) /\ j + 1 \in 1 .. dimension
    BY <1>0 DEF ArrayInv, LengthsCount
  <2>2. CASE j = box
    BY <1>6, <1>7, <2>1, <2>2
  <2>3. CASE j # box
    <3>1. Of(j)' = Of(j)
      BY <1>7, <2>3
    <3> QED BY <1>0, <1>6, <2>1, <2>3, <3>1
  <2> QED BY <2>2, <2>3
<1>T. \A n \in 1 .. size : /\ tails[arrivals[n] + 1] + 1 \in n .. size
                           /\ arrivals[tails[arrivals[n] + 1] + 1] = arrivals[n]
  BY DEF ArrayInv, TailsLast
<1>10. TailsLast'
  <2> SUFFICES ASSUME NEW n \in 1 .. size + 1
               PROVE  /\ tails'[arrivals'[n] + 1] + 1 \in n .. size + 1
                      /\ arrivals'[tails'[arrivals'[n] + 1] + 1] = arrivals'[n]
    BY <1>S DEF TailsLast
  <2>1. CASE arrivals'[n] = box
    <3>1. tails'[arrivals'[n] + 1] = size
      BY <1>2, <1>5, <2>1
    <3> QED BY <1>0, <1>7, <2>1, <3>1
  <2>2. CASE arrivals'[n] # box
    <3>1. n \in 1 .. size /\ arrivals'[n] = arrivals[n]
      BY <1>0, <1>7, <2>2
    <3>2. tails'[arrivals'[n] + 1] = tails[arrivals[n] + 1]
      BY <1>2, <1>5, <2>2, <3>1
    <3> DEFINE t == tails[arrivals[n] + 1]
    <3>3. t + 1 \in n .. size /\ arrivals[t + 1] = arrivals[n] /\ tails'[arrivals'[n] + 1] = t
      BY <1>T, <3>1, <3>2
    <3> HIDE DEF t
    <3>4. t + 1 \in 1 .. size /\ t + 1 \in n .. size + 1
      BY <1>0, <3>1, <3>3
    <3>5. arrivals'[t + 1] = arrivals[t + 1]
      BY <1>7, <3>4
    <3> QED BY <3>1, <3>3, <3>4, <3>5
  <2> QED BY <2>1, <2>2
<1>11. PointersBack'
  <2> SUFFICES ASSUME NEW n \in 1 .. size + 1, NEW m \in 1 .. n - 1, arrivals'[m] = arrivals'[n]
               PROVE  /\ pointers'[n] + 1 \in m .. n - 1
                      /\ arrivals'[pointers'[n] + 1] = arrivals'[n]
    BY <1>S DEF PointersBack
  <2>1. m \in 1 .. size /\ arrivals'[m] = arrivals[m]
    BY <1>0, <1>7
  <2>2. CASE n = new
    <3>1. arrivals[m] = box /\ pointers'[n] = tails[arrivals[m] + 1]
      BY <1>4, <1>7, <2>1, <2>2
    <3> DEFINE t == tails[arrivals[m] + 1]
    <3>3. t + 1 \in m .. size /\ arrivals[t + 1] = box /\ pointers'[n] = t
      BY <1>T, <2>1, <3>1
    <3> HIDE DEF t
    <3>4. t + 1 \in 1 .. size /\ t + 1 \in m .. n - 1
      BY <1>0, <2>1, <2>2, <3>3
    <3>5. arrivals'[t + 1] = arrivals[t + 1]
      BY <1>7, <3>4
    <3> QED BY <1>7, <2>2, <3>3, <3>4, <3>5
  <2>3. CASE n \in 1 .. size
    <3>1. arrivals'[n] = arrivals[n] /\ pointers'[n] = pointers[n]
      BY <1>4, <1>7, <2>3
    <3>2. pointers[n] + 1 \in m .. n - 1 /\ arrivals[pointers[n] + 1] = arrivals[n]
      BY <2>1, <2>3, <3>1 DEF ArrayInv, PointersBack
    <3> DEFINE t == pointers[n]
    <3>3. t + 1 \in m .. n - 1 /\ arrivals[t + 1] = arrivals[n] /\ pointers'[n] = t
      BY <3>1, <3>2
    <3> HIDE DEF t
    <3>4. t + 1 \in 1 .. size
      BY <1>0, <2>1, <2>3, <3>3
    <3>5. arrivals'[t + 1] = arrivals[t + 1]
      BY <1>7, <3>4
    <3> QED BY <3>1, <3>3, <3>5
  <2> QED BY <1>0, <2>2, <2>3
<1> QED BY <1>8, <1>9, <1>10, <1>11 DEF ArrayInv

LEMMA ArrayMade ==
    ASSUME ArraySound, ArrayInv, NEW box \in Nat, box >= dimension,
           Array!Stored(box), Array!MakeAndPlace(box)
    PROVE  ArrayInv'
<1> DEFINE at == box + 1
           new == size + 1
           gap == box - dimension
           one == 1
<1>0. /\ size \in Nat /\ dimension \in Nat /\ size < Capacity /\ Capacity \in Nat
      /\ Roomy(storage) /\ Roomy(pointers)
      /\ tails \in Seq(Nat) /\ Len(tails) = dimension
      /\ lengths \in Seq(Nat) /\ Len(lengths) = dimension
      /\ arrivals \in Seq(Nat) /\ Len(arrivals) = size
      /\ \A n \in 1 .. size : storage[n] = n /\ arrivals[n] < dimension
  BY DEF ArrayInv, ArrayShape, Array!Stored, ArraySound
<1>1. /\ storage' = Array!Written(storage, size + 1) /\ size' = size + 1
      /\ arrivals' = Append(arrivals, box)
      /\ pointers' = IF Fixed THEN pointers ELSE Append(pointers, 0)
      /\ tails' = Append(tails \o Array!Zeros(gap), size)
      /\ lengths' = Append(lengths \o Array!Zeros(gap), one)
      /\ dimension' = at
  BY DEF Array!Stored, Array!MakeAndPlace
<1>2. gap \in Nat /\ at = dimension + gap + 1 /\ one \in Nat
      /\ \A n \in 1 .. size : arrivals[n] \in Nat /\ arrivals[n] + 1 \in 1 .. dimension /\ arrivals[n] # box
  <2>1. gap \in Nat /\ at = dimension + gap + 1 /\ one \in Nat
    BY <1>0
  <2>2. \A n \in 1 .. size : arrivals[n] \in Nat /\ arrivals[n] < dimension
    BY <1>0
  <2>3. \A n \in 1 .. size : arrivals[n] + 1 \in 1 .. dimension /\ arrivals[n] # box
    BY <1>0, <2>2
  <2> QED BY <2>1, <2>2, <2>3
<1>3. /\ storage' \in Seq(Nat) /\ Len(storage') = IF Fixed THEN Capacity ELSE size'
      /\ storage'[new] = new /\ \A n \in 1 .. size : storage'[n] = storage[n]
  <2>1. new \in Nat
    BY <1>0
  <2>2. storage' = Array!Written(storage, new) /\ size' = size + 1
    BY <1>1
  <2> HIDE DEF new
  <2>3. /\ Array!Written(storage, new) \in Seq(Nat)
        /\ Len(Array!Written(storage, new)) = IF Fixed THEN Capacity ELSE size + 1
        /\ Array!Written(storage, new)[size + 1] = new
        /\ \A n \in 1 .. size : Array!Written(storage, new)[n] = storage[n]
    BY <1>0, <2>1, <2>2, WrittenIs
  <2> QED BY <2>2, <2>3 DEF new
<1>4. /\ pointers' \in Seq(Nat) /\ Len(pointers') = IF Fixed THEN Capacity ELSE size'
      /\ \A n \in 1 .. size : pointers'[n] = pointers[n]
  <2>1. CASE Fixed
    BY <1>0, <1>1, <2>1 DEF Roomy
  <2>2. CASE ~Fixed
    <3> DEFINE N == Nat
               z == 0
    <3>1. pointers \in Seq(N) /\ Len(pointers) = size /\ pointers' = Append(pointers, z) /\ z \in N
      BY <1>0, <1>1, <2>2 DEF Roomy
    <3> HIDE DEF N, z
    <3>2. pointers' \in Seq(N) /\ Len(pointers') = Len(pointers) + 1
          /\ \A n \in 1 .. Len(pointers) : pointers'[n] = pointers[n]
      BY <3>1, AppendProperties
    <3> QED BY <1>1, <2>2, <3>1, <3>2 DEF N
  <2> QED BY <2>1, <2>2
<1> HIDE DEF gap, one
<1>5. /\ tails' \in Seq(Nat) /\ Len(tails') = dimension + gap + 1
      /\ tails'[dimension + gap + 1] = size
      /\ \A i \in 1 .. dimension : tails'[i] = tails[i]
  <2>1. tails \in Seq(Nat) /\ gap \in Nat /\ size \in Nat
    BY <1>0, <1>2
  <2>2. /\ Append(tails \o Array!Zeros(gap), size) \in Seq(Nat)
        /\ Len(Append(tails \o Array!Zeros(gap), size)) = Len(tails) + gap + 1
        /\ Append(tails \o Array!Zeros(gap), size)[Len(tails) + gap + 1] = size
        /\ \A i \in 1 .. Len(tails) : Append(tails \o Array!Zeros(gap), size)[i] = tails[i]
        /\ \A i \in Len(tails) + 1 .. Len(tails) + gap : Append(tails \o Array!Zeros(gap), size)[i] = 0
    BY <2>1, GrownIs
  <2>3. Len(tails) = dimension /\ tails' = Append(tails \o Array!Zeros(gap), size)
    BY <1>0, <1>1
  <2> QED BY <2>2, <2>3
<1>6. /\ lengths' \in Seq(Nat) /\ Len(lengths') = dimension + gap + 1
      /\ lengths'[dimension + gap + 1] = one
      /\ \A i \in 1 .. dimension : lengths'[i] = lengths[i]
      /\ \A i \in dimension + 1 .. dimension + gap : lengths'[i] = 0
  <2>1. lengths \in Seq(Nat) /\ gap \in Nat /\ one \in Nat
    BY <1>0, <1>2
  <2>2. /\ Append(lengths \o Array!Zeros(gap), one) \in Seq(Nat)
        /\ Len(Append(lengths \o Array!Zeros(gap), one)) = Len(lengths) + gap + 1
        /\ Append(lengths \o Array!Zeros(gap), one)[Len(lengths) + gap + 1] = one
        /\ \A i \in 1 .. Len(lengths) : Append(lengths \o Array!Zeros(gap), one)[i] = lengths[i]
        /\ \A i \in Len(lengths) + 1 .. Len(lengths) + gap : Append(lengths \o Array!Zeros(gap), one)[i] = 0
    BY <2>1, GrownIs
  <2>3. Len(lengths) = dimension /\ lengths' = Append(lengths \o Array!Zeros(gap), one)
    BY <1>0, <1>1
  <2> QED BY <2>2, <2>3
<1>7. /\ arrivals' \in Seq(Nat) /\ Len(arrivals') = size + 1
      /\ arrivals'[new] = box
      /\ \A n \in 1 .. size : arrivals'[n] = arrivals[n]
      /\ \A j : Cardinality(Of(j)) \in Nat
      /\ Cardinality(Of(box)') = Cardinality(Of(box)) + 1
      /\ \A j : j # box => Of(j)' = Of(j)
  BY <1>0, <1>1, OneMore
<1>S. size' = size + 1 /\ dimension' = at
  BY <1>1
<1>8. ArrayShape'
  <2>1. Roomy(storage)' /\ Roomy(pointers)'
    BY <1>S, <1>3, <1>4 DEF Roomy
  <2>2. \A n \in 1 .. size + 1 : storage'[n] = n /\ arrivals'[n] < at
    <3> TAKE n \in 1 .. size + 1
    <3>1. CASE n = new
      BY <1>3, <1>7, <3>1
    <3>2. CASE n \in 1 .. size
      <4>1. storage'[n] = n /\ arrivals'[n] = arrivals[n]
        BY <1>0, <1>3, <1>7, <3>2
      <4>2. arrivals[n] < at
        BY <1>0, <1>2, <3>2
      <4> QED BY <4>1, <4>2
    <3> QED BY <1>0, <3>1, <3>2
  <2>3. size' \in Nat /\ size' <= Capacity
    BY <1>0, <1>S
  <2> QED BY <1>0, <1>2, <1>S, <1>5, <1>6, <1>7, <2>1, <2>2, <2>3 DEF ArrayShape
<1>E. \A j : j \notin 0 .. dimension - 1 => Of(j) = {}
  BY <1>0 DEF Of
<1>9. LengthsCount'
  <2> SUFFICES ASSUME NEW j \in 0 .. at - 1 PROVE lengths'[j + 1] = Cardinality(Of(j)')
    BY <1>S DEF LengthsCount
  <2>1. CASE j \in 0 .. dimension - 1
    <3>1. lengths[j + 1] = Cardinality(Of(j)) /\ Of(j)' = Of(j)
      BY <1>0, <1>7, <2>1 DEF ArrayInv, LengthsCount
    <3> QED BY <1>0, <1>6, <2>1, <3>1
  <2>2. CASE j \notin 0 .. dimension - 1 /\ j # box
    <3>1. Of(j)' = {} /\ Cardinality({}) = 0
      BY <1>7, <1>E, <2>2, FS_EmptySet
    <3>2. j + 1 \in dimension + 1 .. dimension + gap
      BY <1>0, <1>2, <2>2
    <3> QED BY <1>6, <3>1, <3>2
  <2>3. CASE j = box
    <3>1. Cardinality(Of(box)) = 0
      <4>1. box \notin 0 .. dimension - 1
        BY <1>0
      <4>2. Of(box) = {}
        BY <1>E, <4>1
      <4> QED BY <4>2, FS_EmptySet
    <3> QED BY <1>2, <1>6, <1>7, <2>3, <3>1 DEF one
  <2> QED BY <2>1, <2>2, <2>3
<1>T. \A n \in 1 .. size : /\ tails[arrivals[n] + 1] + 1 \in n .. size
                           /\ arrivals[tails[arrivals[n] + 1] + 1] = arrivals[n]
  BY DEF ArrayInv, TailsLast
<1>10. TailsLast'
  <2> SUFFICES ASSUME NEW n \in 1 .. size + 1
               PROVE  /\ tails'[arrivals'[n] + 1] + 1 \in n .. size + 1
                      /\ arrivals'[tails'[arrivals'[n] + 1] + 1] = arrivals'[n]
    BY <1>S DEF TailsLast
  <2>1. CASE n = new
    <3>1. tails'[arrivals'[n] + 1] = size
      BY <1>2, <1>5, <1>7, <2>1
    <3> QED BY <1>0, <1>7, <2>1, <3>1
  <2>2. CASE n \in 1 .. size
    <3>1. arrivals'[n] = arrivals[n]
      BY <1>7, <2>2
    <3>2. tails'[arrivals'[n] + 1] = tails[arrivals[n] + 1]
      BY <1>2, <1>5, <2>2, <3>1
    <3> DEFINE t == tails[arrivals[n] + 1]
    <3>3. t + 1 \in n .. size /\ arrivals[t + 1] = arrivals[n] /\ tails'[arrivals'[n] + 1] = t
      BY <1>T, <2>2, <3>1, <3>2
    <3> HIDE DEF t
    <3>4. t + 1 \in 1 .. size /\ t + 1 \in n .. size + 1
      BY <1>0, <2>2, <3>3
    <3>5. arrivals'[t + 1] = arrivals[t + 1]
      BY <1>7, <3>4
    <3> QED BY <3>1, <3>3, <3>4, <3>5
  <2> QED BY <1>0, <2>1, <2>2
<1>11. PointersBack'
  <2> SUFFICES ASSUME NEW n \in 1 .. size + 1, NEW m \in 1 .. n - 1, arrivals'[m] = arrivals'[n]
               PROVE  /\ pointers'[n] + 1 \in m .. n - 1
                      /\ arrivals'[pointers'[n] + 1] = arrivals'[n]
    BY <1>S DEF PointersBack
  <2>1. m \in 1 .. size /\ arrivals'[m] = arrivals[m]
    BY <1>0, <1>7
  <2>2. n # new
    BY <1>2, <1>7, <2>1
  <2>3. n \in 1 .. size
    BY <1>0, <2>2
  <2>4. arrivals'[n] = arrivals[n] /\ pointers'[n] = pointers[n]
    BY <1>4, <1>7, <2>3
  <2>5. pointers[n] + 1 \in m .. n - 1 /\ arrivals[pointers[n] + 1] = arrivals[n]
    BY <2>1, <2>3, <2>4 DEF ArrayInv, PointersBack
  <2> DEFINE t == pointers[n]
  <2>6. t + 1 \in m .. n - 1 /\ arrivals[t + 1] = arrivals[n] /\ pointers'[n] = t
    BY <2>4, <2>5
  <2> HIDE DEF t
  <2>7. t + 1 \in 1 .. size
    BY <1>0, <2>1, <2>3, <2>6
  <2>8. arrivals'[t + 1] = arrivals[t + 1]
    BY <1>7, <2>7
  <2> QED BY <2>4, <2>6, <2>8
<1> QED BY <1>8, <1>9, <1>10, <1>11 DEF ArrayInv

LEMMA ArrayNext ==
    ASSUME ArraySound, ArrayInv, Array!Next
    PROVE  ArrayInv'
<1>1. CASE Array!Push
  <2>1. dimension \in Nat /\ Array!Stored(dimension) /\ Array!MakeAndPlace(dimension)
    BY <1>1 DEF Array!Push, ArrayInv, ArrayShape
  <2> QED BY <2>1, ArrayMade
<1>2. CASE Array!Refuse \/ Array!Read
  <2>1. UNCHANGED Array!vars
    BY <1>2 DEF Array!Refuse, Array!Read
  <2> QED BY <2>1 DEF Array!vars, ArrayInv, ArrayShape, LengthsCount, TailsLast, PointersBack, Of, Roomy
<1>3. ASSUME NEW box \in Indices, Array!Set(box)
      PROVE  ArrayInv'
  <2>1. box \in Nat /\ dimension \in Nat
    BY DEF ArraySound, ArrayInv, ArrayShape
  <2>2. /\ Array!Stored(box)
        /\ box < dimension => Array!Place(box)
        /\ ~(box < dimension) => Array!MakeAndPlace(box)
    BY <1>3 DEF Array!Set
  <2>3. CASE box < dimension
    BY <2>1, <2>2, <2>3, ArrayPlaced
  <2>4. CASE ~(box < dimension)
    BY <2>1, <2>2, <2>4, ArrayMade
  <2> QED BY <2>3, <2>4
<1> QED BY <1>1, <1>2, <1>3 DEF Array!Next

LEMMA ArrayInductive ==
    ASSUME ArraySound
    PROVE  Array!Spec => []ArrayInv
<1>1. Array!Init => ArrayInv
  <2> SUFFICES ASSUME Array!Init PROVE ArrayInv
    OBVIOUS
  <2>1. /\ storage = IF Fixed THEN Array!Zeros(Capacity) ELSE <<>>
        /\ pointers = IF Fixed THEN Array!Zeros(Capacity) ELSE <<>>
        /\ tails = <<>> /\ lengths = <<>> /\ size = 0 /\ dimension = 0 /\ arrivals = <<>>
    BY DEF Array!Init
  <2>2. Array!Zeros(Capacity) \in Seq(Nat) /\ Len(Array!Zeros(Capacity)) = Capacity
    BY DEF Array!Zeros, ArraySound
  <2>3. Roomy(storage) /\ Roomy(pointers)
    BY <2>1, <2>2, EmptySeq DEF Roomy
  <2>4. ArrayShape
    BY <2>1, <2>3, EmptySeq DEF ArrayShape, ArraySound
  <2>5. LengthsCount /\ TailsLast /\ PointersBack
    BY <2>1 DEF LengthsCount, TailsLast, PointersBack
  <2> QED BY <2>4, <2>5 DEF ArrayInv
<1>2. ArrayInv /\ [Array!Next]_Array!vars => ArrayInv'
  <2>1. ASSUME ArrayInv, UNCHANGED Array!vars
        PROVE  ArrayInv'
    BY <2>1 DEF Array!vars, ArrayInv, ArrayShape, LengthsCount, TailsLast, PointersBack, Of, Roomy
  <2> QED BY <2>1, ArrayNext
<1> QED BY <1>1, <1>2, PTL DEF Array!Spec

(* The size, the dimension and the lengths of a MultiArray are those of    *)
(* the items that arrived, every one in the cell of its number.            *)
THEOREM ArrayCounted ==
    ASSUME ArraySound
    PROVE  Array!Spec => []Array!CountsExact
<1>1. ArrayInv => Array!CountsExact
  <2> SUFFICES ASSUME ArrayInv PROVE Array!CountsExact
    OBVIOUS
  <2>1. \A S : Array!Cardinality(S) = Cardinality(S)
    BY DEF Array!Cardinality, Cardinality
  <2>2. \A box \in 0 .. dimension - 1 :
            lengths[box + 1] = Array!Cardinality({n \in 1 .. size : arrivals[n] = box})
    BY <2>1 DEF ArrayInv, LengthsCount, Of
  <2> QED BY <2>2 DEF ArrayInv, ArrayShape, Array!CountsExact
<1> QED BY <1>1, ArrayInductive, PTL

(* f follows the pointers of a container from its tail.                    *)
IsChain(box, f) ==
    f = [n \in 0 .. lengths[box + 1] - 1 |->
            IF n = 0 THEN tails[box + 1] ELSE pointers[f[n - 1] + 1]]

(* What follows the pointers comes to every item of the container, from    *)
(* the last to the first.                                                  *)
LEMMA ChainIs ==
    ASSUME ArrayInv, NEW box \in 0 .. dimension - 1
    PROVE  \A n \in 0 .. lengths[box + 1] - 1 :
               /\ Array!Chain(box)[n] + 1 \in Of(box)
               /\ Rank(Of(box), Array!Chain(box)[n] + 1) = lengths[box + 1] - n
<1> DEFINE S == Of(box)
           L == lengths[box + 1]
           ranked(r) == CHOOSE i \in S : Rank(S, i) = r
           f == [n \in 0 .. L - 1 |-> ranked(L - n) - 1]
<1>0. size \in Nat /\ dimension \in Nat /\ \A n \in 1 .. size : arrivals[n] < dimension
  BY DEF ArrayInv, ArrayShape
<1>1. S \subseteq 1 .. size /\ S \in SUBSET Nat /\ IsFiniteSet(S)
  <2>1. S \subseteq 1 .. size
    BY DEF Of
  <2>2. IsFiniteSet(1 .. size)
    BY <1>0, FS_Interval
  <2>3. S \in SUBSET Nat
    BY <1>0, <2>1
  <2> HIDE DEF S
  <2> QED BY <2>1, <2>2, <2>3, FS_Subset
<1>2. L = Cardinality(S) /\ L \in Nat
  BY <1>1, FS_CardinalityType DEF ArrayInv, LengthsCount
<1>3. \A n : n \in S <=> n \in 1 .. size /\ arrivals[n] = box
  BY DEF Of
<1> HIDE DEF S, L
<1>4. /\ \A i \in S : Rank(S, i) \in 1 .. L
      /\ \A i, j \in S : i < j <=> Rank(S, i) < Rank(S, j)
      /\ \A n \in 1 .. L : \E i \in S : Rank(S, i) = n
  BY <1>1, <1>2, Ranks
<1>5. \A r \in 1 .. L : ranked(r) \in S /\ Rank(S, ranked(r)) = r
  BY <1>4
<1>6. \A i, j \in S : Rank(S, i) = Rank(S, j) => i = j
  BY <1>1, <1>4
<1> HIDE DEF ranked
<1>7. \A n \in 0 .. L - 1 : f[n] \in Int /\ f[n] + 1 \in S /\ Rank(S, f[n] + 1) = L - n
  <2> TAKE n \in 0 .. L - 1
  <2>1. L - n \in 1 .. L
    BY <1>2
  <2>2. ranked(L - n) \in S /\ ranked(L - n) \in Nat /\ Rank(S, ranked(L - n)) = L - n
    BY <1>1, <1>5, <2>1
  <2>3. f[n] = ranked(L - n) - 1
    OBVIOUS
  <2> QED BY <2>2, <2>3
<1> HIDE DEF f
<1>8. L > 0 => f[0] = tails[box + 1]
  <2> SUFFICES ASSUME L > 0 PROVE f[0] = tails[box + 1]
    OBVIOUS
  <2> DEFINE last == f[0] + 1
             tail == tails[box + 1] + 1
  <2>1. last \in S /\ Rank(S, last) = L /\ last \in 1 .. size /\ arrivals[last] = box
    BY <1>1, <1>2, <1>3, <1>7
  <2>2. tail \in last .. size /\ arrivals[tail] = box
    <3> HIDE DEF last
    <3> QED BY <2>1 DEF ArrayInv, TailsLast
  <2>3. tails[box + 1] \in Nat
    BY <1>0 DEF ArrayInv, ArrayShape
  <2> HIDE DEF last, tail
  <2>4. tail \in S /\ last \in Nat /\ last <= tail
    BY <1>0, <1>3, <2>1, <2>2
  <2>5. ~(last < tail)
    BY <1>2, <1>4, <2>1, <2>4
  <2>6. last = tail /\ last \in Nat
    BY <1>1, <2>4, <2>5
  <2>7. f[0] \in Int
    BY <1>2, <1>7
  <2> QED BY <2>3, <2>6, <2>7 DEF last, tail
<1>9. ASSUME NEW n \in 1 .. L - 1
      PROVE  f[n] = pointers[f[n - 1] + 1]
  <2> DEFINE here == f[n - 1] + 1
             there == f[n] + 1
             back == pointers[here] + 1
  <2>1. here \in S /\ Rank(S, here) = L - n + 1 /\ there \in S /\ Rank(S, there) = L - n
    BY <1>2, <1>7
  <2>2. here \in 1 .. size /\ there \in 1 .. size /\ arrivals[here] = box /\ arrivals[there] = box
    BY <1>3, <2>1
  <2> HIDE DEF here, there
  <2>3. there < here
    BY <1>2, <1>4, <2>1
  <2>4. back \in there .. here - 1 /\ arrivals[back] = box
    BY <2>2, <2>3 DEF ArrayInv, PointersBack
  <2>5. pointers[here] \in Int
    <3>1. /\ pointers \in Seq(Nat) /\ size <= Capacity
          /\ Len(pointers) = IF Fixed THEN Capacity ELSE size
      BY DEF ArrayInv, ArrayShape, Roomy
    <3>2. here \in 1 .. Len(pointers)
      BY <1>0, <2>2, <3>1
    <3> QED BY <3>1, <3>2
  <2> HIDE DEF back
  <2>6. back \in S /\ back \in Nat /\ there <= back /\ back < here
    BY <1>0, <1>3, <2>2, <2>4
  <2>7. Rank(S, back) < L - n + 1
    BY <1>4, <2>1, <2>6
  <2>8. ~(there < back)
    BY <1>2, <1>4, <2>1, <2>6, <2>7
  <2>9. there = back
    BY <2>2, <2>6, <2>8
  <2>10. f[n] \in Int
    BY <1>2, <1>7
  <2> QED BY <2>5, <2>9, <2>10 DEF there, back, here
<1>10. IsChain(box, f)
  <2>1. DOMAIN f = 0 .. L - 1 /\ f = [n \in 0 .. L - 1 |-> f[n]]
    BY DEF f
  <2>2. \A n \in 0 .. L - 1 : f[n] = IF n = 0 THEN tails[box + 1] ELSE pointers[f[n - 1] + 1]
    BY <1>2, <1>8, <1>9
  <2> QED BY <2>1, <2>2 DEF IsChain, L
<1>11. ASSUME NEW g, IsChain(box, g)
       PROVE  \A n \in 0 .. L - 1 : g[n] = f[n]
  <2>1. \A n \in 0 .. L - 1 : g[n] = IF n = 0 THEN tails[box + 1] ELSE pointers[g[n - 1] + 1]
    BY <1>11 DEF IsChain, L
  <2> DEFINE bad == {n \in 0 .. L - 1 : g[n] # f[n]}
  <2>2. SUFFICES ASSUME bad # {} PROVE FALSE
    OBVIOUS
  <2>3. bad \in SUBSET Nat /\ IsFiniteSet(bad)
    <3>1. bad \subseteq 0 .. L - 1 /\ bad \in SUBSET Nat
      BY <1>2
    <3>2. IsFiniteSet(0 .. L - 1)
      <4>1. 0 \in Int /\ L - 1 \in Int
        BY <1>2
      <4> QED BY <4>1, FS_Interval
    <3> HIDE DEF bad
    <3> QED BY <3>1, <3>2, FS_Subset
  <2>4. PICK n \in bad : \A j \in bad : n <= j
    <3> HIDE DEF bad
    <3> QED BY <2>2, <2>3, LeastOf
  <2>5. n \in 0 .. L - 1 /\ g[n] # f[n]
    OBVIOUS
  <2>6. n # 0
    <3> SUFFICES ASSUME n = 0 PROVE FALSE
      OBVIOUS
    <3>1. L > 0
      BY <1>2, <2>5
    <3>2. g[n] = tails[box + 1]
      BY <2>1, <2>5
    <3> QED BY <1>8, <2>5, <3>1, <3>2
  <2>7. g[n - 1] = f[n - 1]
    BY <1>2, <2>4, <2>5, <2>6
  <2> QED BY <1>2, <1>9, <2>1, <2>5, <2>6, <2>7
<1> DEFINE chain == Array!Chain(box)
<1>12. IsChain(box, chain)
  <2>1. chain = CHOOSE g : IsChain(box, g)
    BY DEF Array!Chain, IsChain
  <2> QED BY <1>10, <2>1
<1> HIDE DEF chain
<1>13. \A n \in 0 .. L - 1 : chain[n] = f[n]
  BY <1>11, <1>12
<1> QED BY <1>7, <1>13 DEF chain, S, L

(* A container of a MultiArray gives the items that were put in it, in the *)
(* order they came, and no others, though nothing marks its first and      *)
(* those of all containers lie mixed.                                      *)
THEOREM ArrayContains ==
    ASSUME ArraySound
    PROVE  Array!Spec => []Array!ContainersExact
<1>1. ASSUME ArrayInv, NEW box \in 0 .. dimension - 1
      PROVE  LET given == Array!Get(box)
             IN  /\ \A n \in 1 .. Len(given) - 1 : given[n] < given[n + 1]
                 /\ Array!ToSet(given) = {n \in 1 .. size : arrivals[n] = box}
  <2> DEFINE S == Of(box)
             L == lengths[box + 1]
             given == Array!Get(box)
             chain == Array!Chain(box)
  <2>1. L \in Nat /\ L = Cardinality(S)
    BY <1>1 DEF ArrayInv, ArrayShape, LengthsCount
  <2>2. \A n \in 0 .. L - 1 : chain[n] + 1 \in S /\ Rank(S, chain[n] + 1) = L - n
    BY <1>1, ChainIs
  <2>3. given = [i \in 1 .. L |-> storage[chain[L - i] + 1]]
    BY DEF Array!Get
  <2>4. S \subseteq 1 .. size /\ S = {n \in 1 .. size : arrivals[n] = box}
    BY DEF Of
  <2>5. size \in Nat /\ \A n \in 1 .. size : storage[n] = n
    BY <1>1 DEF ArrayInv, ArrayShape
  <2> HIDE DEF S, L, given, chain
  <2>6. S \in SUBSET Nat /\ IsFiniteSet(S)
    <3>1. IsFiniteSet(1 .. size)
      BY <2>5, FS_Interval
    <3> QED BY <2>4, <2>5, <3>1, FS_Subset
  <2>7. /\ \A i \in S : Rank(S, i) \in 1 .. L
        /\ \A i, j \in S : i < j <=> Rank(S, i) < Rank(S, j)
    BY <2>1, <2>6, Ranks
  <2>8. \A i \in 1 .. L : given[i] \in S /\ Rank(S, given[i]) = i
    <3> TAKE i \in 1 .. L
    <3>1. L - i \in 0 .. L - 1 /\ L - (L - i) = i
      BY <2>1
    <3>2. chain[L - i] + 1 \in S /\ Rank(S, chain[L - i] + 1) = i
      BY <2>2, <3>1
    <3>3. given[i] = chain[L - i] + 1
      BY <2>3, <2>4, <2>5, <3>2
    <3> QED BY <3>2, <3>3
  <2>9. Len(given) = L /\ DOMAIN given = 1 .. L
    BY <2>1, <2>3
  <2>10. \A n \in 1 .. Len(given) - 1 : given[n] < given[n + 1]
    BY <2>1, <2>7, <2>8, <2>9
  <2>11. Array!ToSet(given) = S
    <3>1. Array!ToSet(given) = {given[i] : i \in 1 .. L}
      BY <2>9 DEF Array!ToSet
    <3>2. \A n \in S : \E i \in 1 .. L : given[i] = n
      <4> TAKE n \in S
      <4> DEFINE i == Rank(S, n)
      <4>1. i \in 1 .. L
        BY <2>7
      <4>2. given[i] \in S /\ Rank(S, given[i]) = i
        BY <2>8, <4>1
      <4>3. ~(n < given[i]) /\ ~(given[i] < n)
        BY <2>1, <2>7, <4>1, <4>2
      <4>4. n \in Nat /\ given[i] \in Nat
        BY <2>6, <4>2
      <4> QED BY <4>1, <4>3, <4>4
    <3> QED BY <2>8, <3>1, <3>2
  <2> QED BY <2>4, <2>10, <2>11 DEF given
<1>2. ArrayInv => Array!ContainersExact
  BY <1>1, Zenon DEF Array!ContainersExact
<1> QED BY <1>2, ArrayInductive, PTL
=============================================================================
