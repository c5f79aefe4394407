----------------------------- MODULE LruProofs -----------------------------
(***************************************************************************)
(* What holds of the LRU engine for every capacity, every set of keys and  *)
(* any number of open walks, provided the Keys class does not change what  *)
(* a key is indexed under (Coherent): MCLruNarrow shows what happens when  *)
(* it does.                                                                *)
(*                                                                         *)
(* First, with and without delete: the order of the recency list is not    *)
(* needed for any of it, as a full cache has no holes and whatever pointer *)
(* the tail holds is live (IInv).                                          *)
(*                                                                         *)
(* Then, as long as nothing is ever deleted: the pointers are the list of  *)
(* the cached keys by recency, every call does what LruSpec says, and a    *)
(* walk opened since the last clear reports cached entries only.  The      *)
(* invariant is that some sequence of the live pointers, each once, is     *)
(* what forward, backward, head and tail spell out (LInv): a promotion and *)
(* an eviction both move one element of it to the front.                   *)
(***************************************************************************)
EXTENDS LruLockstep, FiniteSetTheorems, SequenceTheorems, WellFoundedInduction, TLAPS

(* The slots that have been written since the cache was built.             *)
Written == {p \in Ptr : keys[p] # None}

(* Every pointer a walk can come by was written, or is 0 in a cache that   *)
(* never held anything.                                                    *)
PointersWritten ==
    /\ \A p \in Ptr : forward[p] \in Written \cup {0} /\ backward[p] \in Written \cup {0}
    /\ head \in Written \cup {0}
    /\ tail \in Written \cup {0}
    /\ Holes \subseteq Written
    /\ \A p \in Written : values[p] # None
    /\ size = 0 => holes_len = 0
    /\ \A w \in Walks : walk[w].remaining > 0 =>
            walk[w].pointer \in Written /\ 0 \in Written

IInv ==
    /\ TypeOK
    /\ IndexConsistent
    /\ PointersPartitioned
    /\ SizeIsLiveCount
    /\ PointersWritten

LEMMA NoneNotPtr == None \notin Ptr
<1>1. Ptr \subseteq 0 .. Capacity
  BY CapacityAssumption DEF Ptr
<1>. QED
  BY <1>1, NoneAssumption

LEMMA LiveFinite ==
    ASSUME TypeOK
    PROVE  Live \subseteq Ptr /\ IsFiniteSet(Live)
<1>1. Live \subseteq Ptr
  BY DEF Live, TypeOK
<1>2. IsFiniteSet(Ptr)
  BY FS_Interval, CapacityAssumption DEF Ptr
<1>. QED
  BY <1>1, <1>2, FS_Subset

LEMMA InitIInv == Init => IInv
<1> SUFFICES ASSUME Init PROVE IInv
  OBVIOUS
<1> USE CapacityAssumption, KeyAssumption, NoneAssumption DEF Init, Ptr
<1>1. TypeOK
  BY DEF TypeOK
<1>2. Live = {} /\ Holes = {}
  BY DEF Live, Holes
<1>3. IndexConsistent
  BY DEF IndexConsistent
<1>4. PointersPartitioned
  BY <1>2 DEF PointersPartitioned
<1>5. SizeIsLiveCount
  BY <1>2, FS_EmptySet DEF SizeIsLiveCount
<1>6. PointersWritten
  BY <1>2 DEF PointersWritten, Written
<1>. QED
  BY <1>1, <1>3, <1>4, <1>5, <1>6 DEF IInv

(* Promotion only rearranges pointers the arrays already hold.             *)
LEMMA SplayPreserves ==
    ASSUME IInv, NEW p \in Written, SplayOnTop(p),
           UNCHANGED <<keys, index, size, free, walk>>,
           popped' \in {None} \cup [evicted : BOOLEAN, key : Keys, value : Values],
           values' \in [Ptr -> Values \cup {None}],
           \A q \in Written : values'[q] # None
    PROVE  IInv'
<1>1. /\ TypeOK /\ IndexConsistent /\ PointersPartitioned
      /\ SizeIsLiveCount /\ PointersWritten
  BY DEF IInv
<1>2. p \in Ptr /\ Written' = Written /\ Live' = Live /\ Holes' = Holes
  BY DEF Written, Live, Holes, free
<1>3. /\ forward' \in [Ptr -> Ptr] /\ backward' \in [Ptr -> Ptr]
      /\ head' \in Ptr /\ tail' \in Ptr
      /\ head' \in {head, p}
      /\ tail' \in {tail, backward[p]}
      /\ \A q \in Ptr : forward'[q] \in {forward[q], forward[p], head}
      /\ \A q \in Ptr : backward'[q] \in {backward[q], backward[p], p}
  <2>1. /\ forward \in [Ptr -> Ptr] /\ backward \in [Ptr -> Ptr]
        /\ head \in Ptr /\ tail \in Ptr
    BY <1>1 DEF TypeOK
  <2>2. CASE p = head
    BY <2>1, <2>2, <1>2 DEF SplayOnTop, lists
  <2>3. CASE p # head /\ p = tail
    BY <2>1, <2>3, <1>2 DEF SplayOnTop
  <2>4. CASE p # head /\ p # tail
    BY <2>1, <2>4, <1>2 DEF SplayOnTop
  <2>. QED
    BY <2>2, <2>3, <2>4
<1>4. TypeOK'
  BY <1>1, <1>3 DEF TypeOK, free
<1>5. IndexConsistent'
  BY <1>1 DEF IndexConsistent
<1>6. PointersPartitioned'
  BY <1>1, <1>2 DEF PointersPartitioned, free
<1>7. SizeIsLiveCount'
  BY <1>1, <1>2 DEF SizeIsLiveCount
<1>8. PointersWritten'
  <2>1. \A q \in Ptr : forward'[q] \in Written \cup {0} /\ backward'[q] \in Written \cup {0}
    BY <1>1, <1>2, <1>3 DEF PointersWritten
  <2>2. head' \in Written \cup {0} /\ tail' \in Written \cup {0}
    BY <1>1, <1>2, <1>3 DEF PointersWritten
  <2>. QED
    BY <1>1, <1>2, <2>1, <2>2 DEF PointersWritten, free
<1>. QED
  BY <1>4, <1>5, <1>6, <1>7, <1>8 DEF IInv

(* Which pointer a new key gets, and what the index points at afterwards.  *)
LEMMA NewPointerLive ==
    ASSUME TypeOK, IndexConsistent, PointersPartitioned, Coherent,
           NEW k \in Keys, NEW v \in Values,
           index[IndexOf[k]] = None, InsertNew(IndexOf[k], k, v)
    PROVE  /\ NewPointer \in Ptr
           /\ Live' = Live \cup {NewPointer}
           /\ IndexConsistent'
           /\ Full => NewPointer \in Live /\ holes_len = 0
           /\ ~Full => NewPointer \notin Live
<1> DEFINE ik == IndexOf[k]
           p == NewPointer
<1>1. /\ ik \in IndexKeys /\ Coerce[k] \in Keys /\ Coerce[k] # None
      /\ IndexOf[Coerce[k]] = ik
  BY KeyAssumption, NoneAssumption DEF Coherent
<1>2. /\ index \in [IndexKeys -> Ptr \cup {None}]
      /\ keys \in [Ptr -> Keys \cup {None}]
      /\ holes \in [Ptr -> Ptr]
      /\ size \in 0 .. Capacity /\ holes_len \in 0 .. Capacity
      /\ tail \in Ptr
      /\ Capacity \in Nat \ {0}
      /\ None \notin Ptr
  BY CapacityAssumption, NoneNotPtr DEF TypeOK
<1>3. /\ Live \cap Holes = {}
      /\ Live \cup Holes = 0 .. size + holes_len - 1
      /\ size + holes_len <= Capacity
  BY DEF PointersPartitioned
<1>4. keys' = [keys EXCEPT ![p] = Coerce[k]]
  BY DEF InsertNew
<1>5. CASE Full
  <2>1. size = Capacity /\ holes_len = 0
    BY <1>2, <1>3, <1>5 DEF Full
  <2>2. Holes = {}
    BY <2>1 DEF Holes
  <2>3. p = tail /\ p \in Ptr /\ p \in Live
    BY <1>2, <1>3, <1>5, <2>1, <2>2 DEF NewPointer, Ptr
  <2>4. PICK old \in IndexKeys : index[old] = p /\ index[old] # None
    BY <2>3 DEF Live
  <2>5. \A j \in IndexKeys : index[j] = p => j = old
    BY <2>4 DEF IndexConsistent
  <2>6. IndexOf[keys[p]] = old
    BY <2>4 DEF IndexConsistent
  <2>7. index' = [[index EXCEPT ![old] = None] EXCEPT ![ik] = p]
    BY <1>5, <2>6 DEF InsertNew
  <2>8. \A j \in IndexKeys : index'[j] = IF j = ik THEN p
                                         ELSE IF j = old THEN None ELSE index[j]
    BY <1>1, <1>2, <2>7
  <2>9. IndexConsistent'
    BY <1>1, <1>2, <1>4, <2>3, <2>5, <2>8 DEF IndexConsistent
  <2>10. Live' = Live
    <3>1. ASSUME NEW q \in Live PROVE q \in Live'
      <4>1. PICK j \in IndexKeys : index[j] = q /\ index[j] # None
        BY <3>1 DEF Live
      <4>2. CASE q = p
        BY <1>1, <1>2, <2>3, <2>8, <4>2 DEF Live
      <4>3. CASE q # p
        <5>1. j # old /\ j # ik
          BY <4>1, <4>3, <2>4
        <5>. QED
          BY <4>1, <5>1, <2>8 DEF Live
      <4>. QED
        BY <4>2, <4>3
    <3>2. ASSUME NEW q \in Live' PROVE q \in Live
      BY <3>2, <2>3, <2>8 DEF Live
    <3>. QED
      BY <3>1, <3>2
  <2>. QED
    BY <1>5, <2>1, <2>3, <2>9, <2>10
<1>6. CASE ~Full
  <2>1. p \in Ptr /\ p \notin Live
    <3>1. CASE holes_len > 0
      <4>1. holes_len - 1 \in 0 .. holes_len - 1 /\ holes_len - 1 \in Ptr
        BY <1>2, <3>1 DEF Ptr
      <4>2. p = holes[holes_len - 1]
        BY <1>6, <3>1 DEF NewPointer
      <4>. QED
        BY <1>2, <1>3, <4>1, <4>2 DEF Holes
    <3>2. CASE holes_len = 0
      BY <1>2, <1>3, <1>6, <3>2 DEF NewPointer, Full, Ptr
    <3>. QED
      BY <1>2, <3>1, <3>2
  <2>2. index' = [index EXCEPT ![ik] = p]
    BY <1>6 DEF InsertNew
  <2>3. \A j \in IndexKeys : index[j] # p
    BY <1>2, <2>1 DEF Live
  <2>4. IndexConsistent'
    BY <1>1, <1>2, <1>4, <2>1, <2>2, <2>3 DEF IndexConsistent
  <2>5. Live' = Live \cup {p}
    <3>1. ASSUME NEW q \in Live PROVE q \in Live'
      <4>1. PICK j \in IndexKeys : index[j] = q /\ index[j] # None
        BY <3>1 DEF Live
      <4>. QED
        BY <1>1, <1>2, <2>2, <4>1 DEF Live
    <3>2. p \in Live'
      BY <1>1, <1>2, <2>1, <2>2 DEF Live
    <3>3. ASSUME NEW q \in Live' PROVE q \in Live \cup {p}
      BY <1>1, <1>2, <2>2, <3>3 DEF Live
    <3>. QED
      BY <3>1, <3>2, <3>3
  <2>. QED
    BY <1>6, <2>1, <2>4, <2>5
<1>. QED
  BY <1>5, <1>6

LEMMA InsertPreserves ==
    ASSUME IInv, Coherent, NEW k \in Keys, NEW v \in Values,
           index[IndexOf[k]] = None, InsertNew(IndexOf[k], k, v), UNCHANGED walk,
           popped' \in {None} \cup [evicted : BOOLEAN, key : Keys, value : Values]
    PROVE  IInv'
<1> DEFINE ik == IndexOf[k]
           p == NewPointer
<1>1. /\ TypeOK /\ IndexConsistent /\ PointersPartitioned
      /\ SizeIsLiveCount /\ PointersWritten
  BY DEF IInv
<1>2. /\ p \in Ptr
      /\ Live' = Live \cup {p}
      /\ IndexConsistent'
      /\ Full => p \in Live /\ holes_len = 0
      /\ ~Full => p \notin Live
  BY <1>1, NewPointerLive
<1>3. /\ ik \in IndexKeys /\ Coerce[k] \in Keys /\ Coerce[k] # None /\ v # None
      /\ Capacity \in Nat \ {0}
  BY KeyAssumption, NoneAssumption, CapacityAssumption
<1>4. /\ size \in 0 .. Capacity /\ holes_len \in 0 .. Capacity
      /\ keys \in [Ptr -> Keys \cup {None}]
      /\ values \in [Ptr -> Values \cup {None}]
      /\ forward \in [Ptr -> Ptr] /\ backward \in [Ptr -> Ptr]
      /\ holes \in [Ptr -> Ptr]
      /\ head \in Ptr /\ tail \in Ptr
  BY <1>1 DEF TypeOK
<1>5. /\ keys' = [keys EXCEPT ![p] = Coerce[k]]
      /\ values' = [values EXCEPT ![p] = v]
      /\ forward' = [forward EXCEPT ![p] = head]
      /\ backward' = [backward EXCEPT ![head] = p]
      /\ tail' \in {tail, backward[tail]}
      /\ head' = p
      /\ holes' = holes
      /\ size' = IF Full THEN size ELSE size + 1
      /\ holes_len' = IF ~Full /\ holes_len > 0 THEN holes_len - 1 ELSE holes_len
  BY DEF InsertNew
<1>6. TypeOK'
  <2>1. index' \in [IndexKeys -> Ptr \cup {None}]
    BY <1>1, <1>2, <1>3 DEF TypeOK, InsertNew
  <2>2. /\ size' \in 0 .. Capacity /\ holes_len' \in 0 .. Capacity
    BY <1>3, <1>4, <1>5 DEF Full
  <2>3. /\ keys' \in [Ptr -> Keys \cup {None}]
        /\ values' \in [Ptr -> Values \cup {None}]
        /\ forward' \in [Ptr -> Ptr] /\ backward' \in [Ptr -> Ptr]
        /\ holes' \in [Ptr -> Ptr]
        /\ head' \in Ptr /\ tail' \in Ptr
    BY <1>2, <1>3, <1>4, <1>5
  <2>. QED
    BY <1>1, <2>1, <2>2, <2>3 DEF TypeOK
<1>7. /\ Live \cap Holes = {}
      /\ Live \cup Holes = 0 .. size + holes_len - 1
      /\ \A i, j \in 0 .. holes_len - 1 : holes[i] = holes[j] => i = j
      /\ size + holes_len <= Capacity
  BY <1>1 DEF PointersPartitioned
<1>8. PointersPartitioned' /\ Holes' \subseteq Holes
  <2>1. CASE Full
    BY <1>2, <1>5, <1>7, <2>1 DEF PointersPartitioned, Holes
  <2>2. CASE ~Full /\ holes_len = 0
    <3>1. p = size /\ holes_len' = 0 /\ size' = size + 1
      BY <1>5, <2>2 DEF NewPointer
    <3>2. Holes = {} /\ Holes' = {}
      BY <2>2, <3>1 DEF Holes
    <3>3. Live' = 0 .. size' + holes_len' - 1
      BY <1>2, <1>4, <1>7, <2>2, <3>1, <3>2
    <3>4. size' + holes_len' <= Capacity
      BY <1>3, <1>4, <2>2, <3>1 DEF Full
    <3>5. \A i, j \in 0 .. holes_len' - 1 : holes'[i] = holes'[j] => i = j
      BY <3>1
    <3>. QED
      BY <3>2, <3>3, <3>4, <3>5 DEF PointersPartitioned
  <2>3. CASE ~Full /\ holes_len > 0
    <3>1. /\ p = holes[holes_len - 1] /\ holes_len' = holes_len - 1
          /\ size' = size + 1 /\ size' + holes_len' = size + holes_len
          /\ size' + holes_len' - 1 = size + holes_len - 1
      BY <1>4, <1>5, <2>3 DEF NewPointer
    <3>2. Holes = Holes' \cup {p} /\ p \notin Holes'
      <4>1. ASSUME NEW q \in Holes PROVE q \in Holes' \cup {p}
        <5>1. PICK i \in 0 .. holes_len - 1 : q = holes[i]
          BY <4>1 DEF Holes
        <5>2. i = holes_len - 1 \/ i \in 0 .. holes_len' - 1
          BY <1>4, <3>1, <5>1
        <5>. QED
          BY <1>5, <3>1, <5>1, <5>2 DEF Holes
      <4>2. ASSUME NEW q \in Holes' \cup {p} PROVE q \in Holes
        BY <1>4, <1>5, <2>3, <3>1, <4>2 DEF Holes
      <4>3. ASSUME p \in Holes' PROVE FALSE
        <5>1. PICK i \in 0 .. holes_len' - 1 : p = holes[i]
          BY <1>5, <4>3 DEF Holes
        <5>2. /\ i \in 0 .. holes_len - 1 /\ holes_len - 1 \in 0 .. holes_len - 1
              /\ i # holes_len - 1
          BY <1>4, <2>3, <3>1, <5>1
        <5>. QED
          BY <1>7, <3>1, <5>1, <5>2
      <4>. QED
        BY <4>1, <4>2, <4>3
    <3>3. \A i, j \in 0 .. holes_len' - 1 : holes'[i] = holes'[j] => i = j
      BY <1>4, <1>5, <1>7, <3>1
    <3>4. Live' \cap Holes' = {} /\ Live' \cup Holes' = Live \cup Holes
      BY <1>2, <1>7, <3>2
    <3>5. Holes' \subseteq Holes
      BY <3>2
    <3>6. Live' \cup Holes' = 0 .. size' + holes_len' - 1
      BY <1>7, <3>1, <3>4
    <3>7. size' + holes_len' <= Capacity
      BY <1>7, <3>1
    <3>. QED
      BY <3>3, <3>4, <3>5, <3>6, <3>7 DEF PointersPartitioned
  <2>. QED
    BY <1>4, <2>1, <2>2, <2>3
<1>9. SizeIsLiveCount'
  <2>1. IsFiniteSet(Live)
    BY <1>1, LiveFinite
  <2>2. Cardinality(Live') = IF p \in Live THEN Cardinality(Live) ELSE Cardinality(Live) + 1
    BY <1>2, <2>1, FS_AddElement
  <2>. QED
    BY <1>1, <1>2, <1>5, <2>2 DEF SizeIsLiveCount
<1>10. PointersWritten'
  <2>1. Written' = Written \cup {p}
    BY <1>2, <1>3, <1>4, <1>5 DEF Written
  <2>2. 0 \in Written'
    <3>1. CASE size = 0
      <4>1. holes_len = 0
        BY <1>1, <3>1 DEF PointersWritten
      <4>2. p = 0
        BY <1>3, <3>1, <4>1 DEF NewPointer, Full
      <4>. QED
        BY <2>1, <4>2
    <3>2. CASE size # 0
      <4>1. 0 \in Live \cup Holes
        BY <1>4, <1>7, <3>2
      <4>2. Live \subseteq Written
        BY <1>1, LiveFinite DEF Live, Written, IndexConsistent
      <4>. QED
        BY <1>1, <2>1, <4>1, <4>2 DEF PointersWritten
    <3>. QED
      BY <3>1, <3>2
  <2>3. \A q \in Ptr : forward'[q] \in Written' /\ backward'[q] \in Written'
    BY <1>1, <1>4, <1>5, <2>1, <2>2 DEF PointersWritten
  <2>4. head' \in Written' /\ tail' \in Written'
    BY <1>1, <1>4, <1>5, <2>1, <2>2 DEF PointersWritten
  <2>5. \A q \in Written' : values'[q] # None
    BY <1>1, <1>3, <1>4, <1>5, <2>1 DEF PointersWritten, Written
  <2>6. size' # 0
    BY <1>3, <1>4, <1>5 DEF Full
  <2>7. \A w \in Walks : walk'[w].remaining > 0 => walk'[w].pointer \in Written'
    BY <1>1, <2>1 DEF PointersWritten
  <2>. QED
    BY <1>1, <1>8, <2>1, <2>2, <2>3, <2>4, <2>5, <2>6, <2>7 DEF PointersWritten
<1>. QED
  BY <1>2, <1>6, <1>8, <1>9, <1>10 DEF IInv

LEMMA WritePreserves ==
    ASSUME IInv, Coherent, NEW k \in Keys, NEW v \in Values, Write(k, v),
           UNCHANGED walk,
           popped' \in {None} \cup [evicted : BOOLEAN, key : Keys, value : Values]
    PROVE  IInv'
<1> DEFINE ik == IndexOf[k]
<1>1. TypeOK /\ IndexConsistent /\ ik \in IndexKeys /\ v # None
  BY KeyAssumption, NoneAssumption DEF IInv
<1>2. CASE index[ik] = None
  BY <1>2, InsertPreserves DEF Write
<1>3. CASE index[ik] # None
  <2>1. index[ik] \in Written
    BY <1>1, <1>3 DEF TypeOK, IndexConsistent, Written
  <2>2. Overwrite(index[ik], v)
    BY <1>3 DEF Write
  <2>3. values \in [Ptr -> Values \cup {None}]
    BY <1>1 DEF TypeOK
  <2>4. \A q \in Written : values[q] # None
    BY DEF IInv, PointersWritten
  <2>5. /\ values' \in [Ptr -> Values \cup {None}]
        /\ \A q \in Written : values'[q] # None
    BY <1>1, <2>2, <2>3, <2>4 DEF Overwrite, Written
  <2>6. SplayOnTop(index[ik]) /\ UNCHANGED <<keys, index, size, free, walk>>
    BY <2>2 DEF Overwrite
  <2>. QED
    BY <2>1, <2>5, <2>6, SplayPreserves
<1>. QED
  BY <1>2, <1>3

LEMMA SetPreserves ==
    ASSUME IInv, Coherent, NEW k \in Keys, NEW v \in Values,
           Set(k, v) \/ SetPop(k, v)
    PROVE  IInv'
<1>1. Write(k, v) /\ UNCHANGED walk
  BY DEF Set, SetPop
<1>2. popped' \in {None} \cup [evicted : BOOLEAN, key : Keys, value : Values]
  <2>1. CASE Set(k, v)
    BY <2>1 DEF Set
  <2>2. CASE SetPop(k, v)
    <3> DEFINE p == index[IndexOf[k]]
    <3>1. /\ TypeOK /\ IndexConsistent /\ IndexOf[k] \in IndexKeys /\ Coerce[k] \in Keys
      BY KeyAssumption DEF IInv
    <3>2. CASE p # None
      <4>1. p \in Written
        BY <3>1, <3>2 DEF TypeOK, IndexConsistent, Written
      <4>2. values[p] \in Values
        BY <3>1, <4>1 DEF IInv, TypeOK, PointersWritten, Written
      <4>. QED
        BY <2>2, <3>1, <3>2, <4>2 DEF SetPop
    <3>3. CASE p = None /\ Full
      <4>1. NewPointer = tail /\ InsertNew(IndexOf[k], k, v)
        BY <1>1, <3>3 DEF Write, NewPointer
      <4>2. tail \in Live
        BY <3>1, <3>3, <4>1, NewPointerLive DEF IInv
      <4>3. tail \in Written
        BY <3>1, <4>2 DEF Live, TypeOK, IndexConsistent, Written
      <4>4. keys[tail] \in Keys /\ values[tail] \in Values
        BY <3>1, <4>3 DEF IInv, TypeOK, PointersWritten, Written
      <4>. QED
        BY <2>2, <3>3, <4>4 DEF SetPop
    <3>4. CASE p = None /\ ~Full
      BY <2>2, <3>4 DEF SetPop
    <3>. QED
      BY <3>2, <3>3, <3>4
  <2>. QED
    BY <2>1, <2>2
<1>. QED
  BY <1>1, <1>2, WritePreserves

LEMMA GetPreserves ==
    ASSUME IInv, NEW k \in Keys, Get(k)
    PROVE  IInv'
<1> DEFINE p == index[IndexOf[k]]
<1>1. TypeOK /\ IndexConsistent /\ IndexOf[k] \in IndexKeys
  BY KeyAssumption DEF IInv
<1>2. CASE p # None
  <2>1. p \in Written
    BY <1>1, <1>2 DEF TypeOK, IndexConsistent, Written
  <2>2. \A q \in Written : values[q] # None
    BY DEF IInv, PointersWritten
  <2>. QED
    BY <1>1, <1>2, <2>1, <2>2, SplayPreserves DEF Get, slots, TypeOK
<1>3. CASE p = None
  <2>1. UNCHANGED <<forward, backward, head, tail, keys, values, holes, holes_len,
                    index, size, walk>> /\ popped' = None
    BY <1>3 DEF Get, lists, slots, free
  <2>2. Live' = Live /\ Holes' = Holes /\ Written' = Written
    BY <2>1 DEF Live, Holes, Written
  <2>. QED
    BY <2>1, <2>2 DEF IInv, TypeOK, IndexConsistent, PointersPartitioned,
                      SizeIsLiveCount, PointersWritten
<1>. QED
  BY <1>2, <1>3

LEMMA ClearPreserves ==
    ASSUME IInv, Clear
    PROVE  IInv'
<1> USE CapacityAssumption, NoneAssumption
<1>1. /\ size' = 0 /\ head' = 0 /\ tail' = 0 /\ holes_len' = 0
      /\ index' = [ik \in IndexKeys |-> None] /\ popped' = None
      /\ UNCHANGED <<forward, backward, holes, keys, values>>
      /\ walk' = [w \in Walks |-> [walk[w] EXCEPT !.fresh = @ /\ walk[w].remaining = 0]]
  BY DEF Clear, slots, Outdate
<1>2. Live' = {} /\ Holes' = {} /\ Written' = Written
  BY <1>1 DEF Live, Holes, Written
<1>3. TypeOK'
  <2>1. walk' \in [Walks -> [pointer : Ptr, remaining : 0 .. Capacity, fresh : BOOLEAN]]
    BY <1>1, ZenonT(60) DEF IInv, TypeOK
  <2>2. 0 \in Ptr /\ 0 \in 0 .. Capacity
    BY DEF Ptr
  <2>. QED
    BY <1>1, <2>1, <2>2 DEF IInv, TypeOK
<1>4. IndexConsistent'
  BY <1>1 DEF IndexConsistent
<1>5. PointersPartitioned'
  BY <1>1, <1>2 DEF PointersPartitioned
<1>6. SizeIsLiveCount'
  BY <1>1, <1>2, FS_EmptySet DEF SizeIsLiveCount
<1>7. PointersWritten'
  <2>1. \A w \in Walks : /\ walk'[w].remaining = walk[w].remaining
                         /\ walk'[w].pointer = walk[w].pointer
    BY <1>1 DEF IInv, TypeOK
  <2>. QED
    BY <1>1, <1>2, <2>1, SMTT(60) DEF IInv, PointersWritten
<1>. QED
  BY <1>3, <1>4, <1>5, <1>6, <1>7 DEF IInv

LEMMA DeletePreserves ==
    ASSUME IInv, NEW k \in Keys, Delete(k)
    PROVE  IInv'
<1> DEFINE ik == IndexOf[k]
           p == index[ik]
<1>1. /\ TypeOK /\ IndexConsistent /\ PointersPartitioned
      /\ SizeIsLiveCount /\ PointersWritten
  BY DEF IInv
<1>2. /\ ik \in IndexKeys /\ p # None
      /\ index' = [index EXCEPT ![ik] = None]
      /\ Unlink(p)
      /\ popped' = None
      /\ UNCHANGED <<keys, values>>
  BY KeyAssumption DEF Delete, slots
<1>3. walk' = [w \in Walks |-> [walk[w] EXCEPT !.fresh = @ /\ walk[w].remaining = 0]]
  BY DEF Delete, Outdate
<1>4. /\ size \in 0 .. Capacity /\ holes_len \in 0 .. Capacity
      /\ forward \in [Ptr -> Ptr] /\ backward \in [Ptr -> Ptr]
      /\ holes \in [Ptr -> Ptr] /\ index \in [IndexKeys -> Ptr \cup {None}]
      /\ head \in Ptr /\ tail \in Ptr
      /\ Capacity \in Nat \ {0}
      /\ p \in Ptr
  BY <1>1, <1>2, CapacityAssumption DEF TypeOK
<1>5. /\ Live \cap Holes = {}
      /\ Live \cup Holes = 0 .. size + holes_len - 1
      /\ \A i, j \in 0 .. holes_len - 1 : holes[i] = holes[j] => i = j
      /\ size + holes_len <= Capacity
  BY <1>1 DEF PointersPartitioned
<1>6. p \in Live /\ Live' = Live \ {p}
  <2>1. \A j \in IndexKeys : index[j] = p => j = ik
    BY <1>1, <1>2 DEF IndexConsistent
  <2>2. p \in Live
    BY <1>2 DEF Live
  <2>3. ASSUME NEW q \in Live \ {p} PROVE q \in Live'
    BY <1>2, <1>4, <2>3 DEF Live
  <2>4. ASSUME NEW q \in Live' PROVE q \in Live \ {p}
    BY <1>2, <1>4, <2>1, <2>4 DEF Live
  <2>. QED
    BY <2>2, <2>3, <2>4
<1>7. IsFiniteSet(Live) /\ Cardinality(Live') = size - 1 /\ size # 0
  <2>1. IsFiniteSet(Live)
    BY <1>1, LiveFinite
  <2>2. Cardinality(Live) = size
    BY <1>1 DEF SizeIsLiveCount
  <2>3. Cardinality(Live \ {p}) = Cardinality(Live) - 1
    BY <1>6, <2>1, FS_RemoveElement
  <2>4. Live # {}
    BY <1>6
  <2>. QED
    BY <1>6, <2>1, <2>2, <2>3, <2>4, FS_EmptySet
<1>8. Written' = Written /\ p \in Written
  BY <1>1, <1>2, <1>4 DEF Written, IndexConsistent
<1>9. /\ \A w \in Walks : /\ walk'[w].remaining = walk[w].remaining
                          /\ walk'[w].pointer = walk[w].pointer
      /\ walk' \in [Walks -> [pointer : Ptr, remaining : 0 .. Capacity, fresh : BOOLEAN]]
  BY <1>1, <1>3, ZenonT(60) DEF TypeOK
<1>10. index' \in [IndexKeys -> Ptr \cup {None}] /\ IndexConsistent'
  BY <1>1, <1>2, <1>4 DEF IndexConsistent
<1>11. CASE size = 1
  <2>1. /\ size' = 0 /\ head' = 0 /\ tail' = 0 /\ holes_len' = 0
        /\ UNCHANGED <<forward, backward, holes>>
    BY <1>2, <1>11 DEF Unlink
  <2>2. 0 \in Ptr /\ 0 \in 0 .. Capacity
    BY <1>4 DEF Ptr
  <2>3. Live' = {}
    <3>1. IsFiniteSet(Live')
      BY <1>6, <1>7, FS_RemoveElement
    <3>. QED
      BY <1>7, <1>11, <3>1, FS_EmptySet
  <2>4. Holes' = {}
    BY <2>1 DEF Holes
  <2>5. TypeOK'
    BY <1>1, <1>2, <1>9, <1>10, <2>1, <2>2 DEF TypeOK
  <2>6. PointersPartitioned'
    BY <1>4, <2>1, <2>3, <2>4 DEF PointersPartitioned
  <2>7. SizeIsLiveCount'
    BY <1>7, <1>11, <2>1 DEF SizeIsLiveCount
  <2>8. PointersWritten'
    BY <1>1, <1>2, <1>8, <1>9, <2>1, <2>4 DEF PointersWritten
  <2>. QED
    BY <1>10, <2>5, <2>6, <2>7, <2>8 DEF IInv
<1>12. CASE size # 1
  <2>1. /\ head' \in {head, forward[p]}
        /\ tail' \in {tail, backward[p]}
        /\ forward' = [forward EXCEPT ![backward[p]] = forward[p]]
        /\ backward' = [backward EXCEPT ![forward[p]] = backward[p]]
        /\ size' = size - 1
        /\ holes' = [holes EXCEPT ![holes_len] = p]
        /\ holes_len' = holes_len + 1
    BY <1>2, <1>7, <1>12 DEF Unlink
  <2>2. /\ holes_len \in Ptr /\ size' \in 0 .. Capacity /\ holes_len' \in 0 .. Capacity
        /\ size' # 0 /\ size' + holes_len' = size + holes_len
        /\ size' + holes_len' - 1 = size + holes_len - 1
    BY <1>4, <1>5, <1>7, <1>12, <2>1 DEF Ptr
  <2>3. Holes' = Holes \cup {p}
    <3>1. ASSUME NEW q \in Holes PROVE q \in Holes'
      <4>1. PICK i \in 0 .. holes_len - 1 : q = holes[i]
        BY <3>1 DEF Holes
      <4>2. i \in Ptr /\ i # holes_len /\ i \in 0 .. holes_len' - 1
        BY <1>4, <2>1, <2>2 DEF Ptr
      <4>. QED
        BY <1>4, <2>1, <4>1, <4>2 DEF Holes
    <3>2. p \in Holes'
      BY <1>4, <2>1, <2>2 DEF Holes
    <3>3. ASSUME NEW q \in Holes' PROVE q \in Holes \cup {p}
      <4>1. PICK i \in 0 .. holes_len : q = holes'[i]
        BY <1>4, <2>1, <3>3 DEF Holes
      <4>2. CASE i = holes_len
        BY <1>4, <2>1, <2>2, <4>1, <4>2
      <4>3. CASE i # holes_len
        <5>1. i \in 0 .. holes_len - 1 /\ i \in Ptr
          BY <1>4, <2>2, <4>3 DEF Ptr
        <5>. QED
          BY <1>4, <2>1, <4>1, <4>3, <5>1 DEF Holes
      <4>. QED
        BY <4>2, <4>3
    <3>. QED
      BY <3>1, <3>2, <3>3
  <2>4. ASSUME NEW i \in 0 .. holes_len' - 1, NEW j \in 0 .. holes_len' - 1,
               holes'[i] = holes'[j]
        PROVE  i = j
    <3>1. \A n \in 0 .. holes_len - 1 : /\ n \in Ptr /\ n # holes_len
                                        /\ holes'[n] = holes[n] /\ holes[n] # p
      <4> TAKE n \in 0 .. holes_len - 1
      <4>1. n \in Ptr /\ n # holes_len
        BY <1>4, <2>2 DEF Ptr
      <4>2. holes[n] # p
        BY <1>5, <1>6 DEF Holes
      <4>. QED
        BY <1>4, <2>1, <4>1, <4>2
    <3>2. holes'[holes_len] = p
      BY <1>4, <2>1, <2>2
    <3>3. /\ i \in 0 .. holes_len - 1 \/ i = holes_len
          /\ j \in 0 .. holes_len - 1 \/ j = holes_len
      BY <1>4, <2>1
    <3>. QED
      BY <1>5, <2>4, <3>1, <3>2, <3>3
  <2>5. PointersPartitioned'
    <3>1. Live' \cap Holes' = {} /\ Live' \cup Holes' = Live \cup Holes
      BY <1>5, <1>6, <2>3
    <3>2. Live' \cup Holes' = 0 .. size' + holes_len' - 1
      BY <1>5, <2>2, <3>1
    <3>. QED
      BY <1>5, <2>2, <2>4, <3>1, <3>2 DEF PointersPartitioned
  <2>6. TypeOK'
    <3>1. forward' \in [Ptr -> Ptr] /\ backward' \in [Ptr -> Ptr] /\ holes' \in [Ptr -> Ptr]
      BY <1>4, <2>1
    <3>2. head' \in Ptr /\ tail' \in Ptr
      BY <1>4, <2>1
    <3>. QED
      BY <1>1, <1>2, <1>9, <1>10, <2>2, <3>1, <3>2 DEF TypeOK
  <2>7. SizeIsLiveCount'
    BY <1>7, <2>1 DEF SizeIsLiveCount
  <2>8. PointersWritten'
    <3>1. forward[p] \in Written \cup {0} /\ backward[p] \in Written \cup {0}
      BY <1>1, <1>4 DEF PointersWritten
    <3>2. \A q \in Ptr : forward'[q] \in Written \cup {0} /\ backward'[q] \in Written \cup {0}
      BY <1>1, <1>4, <2>1, <3>1 DEF PointersWritten
    <3>3. head' \in Written \cup {0} /\ tail' \in Written \cup {0}
      BY <1>1, <2>1, <3>1 DEF PointersWritten
    <3>4. Holes' \subseteq Written
      BY <1>1, <1>8, <2>3 DEF PointersWritten
    <3>. QED
      BY <1>1, <1>2, <1>8, <1>9, <2>2, <3>2, <3>3, <3>4 DEF PointersWritten
  <2>. QED
    BY <1>10, <2>5, <2>6, <2>7, <2>8 DEF IInv
<1>. QED
  BY <1>11, <1>12

LEMMA WalkPreserves ==
    ASSUME IInv, NEW w \in Walks, OpenWalk(w) \/ AdvanceWalk(w)
    PROVE  IInv'
<1>1. UNCHANGED <<forward, backward, head, tail, keys, values, holes, holes_len,
                  index, size, popped>>
  BY DEF OpenWalk, AdvanceWalk, lists, slots, free
<1>2. Live' = Live /\ Holes' = Holes /\ Written' = Written
  BY <1>1 DEF Live, Holes, Written
<1>3. /\ walk \in [Walks -> [pointer : Ptr, remaining : 0 .. Capacity, fresh : BOOLEAN]]
      /\ forward \in [Ptr -> Ptr] /\ head \in Ptr /\ size \in 0 .. Capacity
      /\ Capacity \in Nat
  BY CapacityAssumption DEF IInv, TypeOK
<1>4. size > 0 => 0 \in Written
  <2>1. HAVE size > 0
  <2>2. 0 \in Live \cup Holes
    BY <1>3, <2>1 DEF IInv, PointersPartitioned, TypeOK
  <2>3. Live \subseteq Written
    BY LiveFinite DEF IInv, Live, Written, IndexConsistent
  <2>. QED
    BY <2>2, <2>3 DEF IInv, PointersWritten
<1>5. /\ walk' \in [Walks -> [pointer : Ptr, remaining : 0 .. Capacity, fresh : BOOLEAN]]
      /\ \A u \in Walks : walk'[u].remaining > 0 =>
            walk'[u].pointer \in Written /\ 0 \in Written
  <2>1. CASE OpenWalk(w)
    <3>1. walk' = [walk EXCEPT ![w] = [pointer |-> head, remaining |-> size, fresh |-> TRUE]]
      BY <2>1 DEF OpenWalk
    <3>2. head \in Written \cup {0}
      BY DEF IInv, PointersWritten
    <3>. QED
      BY <1>3, <1>4, <3>1, <3>2 DEF IInv, PointersWritten
  <2>2. CASE AdvanceWalk(w)
    <3>1. /\ walk[w].remaining > 0
          /\ walk' = [walk EXCEPT ![w].pointer = forward[@], ![w].remaining = @ - 1]
      BY <2>2 DEF AdvanceWalk
    <3>2. forward[walk[w].pointer] \in Written
      BY <1>3, <3>1 DEF IInv, PointersWritten
    <3>. QED
      BY <1>3, <3>1, <3>2 DEF IInv, PointersWritten
  <2>. QED
    BY <2>1, <2>2
<1>6. TypeOK'
  BY <1>1, <1>5 DEF IInv, TypeOK
<1>7. PointersWritten'
  BY <1>1, <1>2, <1>5 DEF IInv, PointersWritten
<1>. QED
  BY <1>1, <1>2, <1>6, <1>7 DEF IInv, IndexConsistent, PointersPartitioned, SizeIsLiveCount

LEMMA NextPreserves ==
    ASSUME IInv, Coherent, [Next]_vars
    PROVE  IInv'
<1>1. ASSUME NEW k \in Keys, NEW v \in Values, Set(k, v) \/ SetPop(k, v)
      PROVE  IInv'
  BY <1>1, SetPreserves
<1>2. ASSUME NEW k \in Keys, Get(k) PROVE IInv'
  BY <1>2, GetPreserves
<1>3. ASSUME NEW k \in Keys, Delete(k) PROVE IInv'
  BY <1>3, DeletePreserves
<1>4. CASE Clear
  BY <1>4, ClearPreserves
<1>5. ASSUME NEW w \in Walks, OpenWalk(w) \/ AdvanceWalk(w)
      PROVE  IInv'
  BY <1>5, WalkPreserves
<1>6. CASE UNCHANGED vars
  <2>1. Live' = Live /\ Holes' = Holes /\ Written' = Written
    BY <1>6 DEF vars, Live, Holes, Written
  <2>. QED
    BY <1>6, <2>1 DEF vars, IInv, TypeOK, IndexConsistent, PointersPartitioned,
                      SizeIsLiveCount, PointersWritten
<1>. QED
  BY <1>1, <1>2, <1>3, <1>4, <1>5, <1>6 DEF Next

LEMMA Inductive == Coherent => (Spec => []IInv)
<1> SUFFICES ASSUME Coherent PROVE Spec => []IInv
  OBVIOUS
<1>1. Init => IInv
  BY InitIInv
<1>2. IInv /\ [Next]_vars => IInv'
  BY NextPreserves
<1>. QED
  BY <1>1, <1>2, PTL DEF Spec

LEMMA IInvImplies == IInv => WalksNeverPanic
<1> SUFFICES ASSUME IInv, NEW w \in Walks, walk[w].remaining > 0
             PROVE  /\ keys[walk[w].pointer] # None
                    /\ values[walk[w].pointer] # None
  BY DEF WalksNeverPanic
<1>1. walk[w].pointer \in Written
  BY DEF IInv, PointersWritten
<1>. QED
  BY <1>1 DEF IInv, PointersWritten, Written

(* For every capacity, key set and number of walks: the fields of the      *)
(* cache stay within their ranges, so no pointer leaves the arrays.        *)
THEOREM TypeCorrect == Coherent => (Spec => []TypeOK)
<1>1. IInv => TypeOK
  BY DEF IInv
<1>. QED
  BY <1>1, Inductive, PTL

(* The slot a key is indexed to holds an entry of that key, with deletions *)
(* too: an eviction or a deletion takes the right key out of the index.    *)
THEOREM IndexCorrect == Coherent => (Spec => []IndexConsistent)
<1>1. IInv => IndexConsistent
  BY DEF IInv
<1>. QED
  BY <1>1, Inductive, PTL

(* Every slot ever handed out is indexed or waits in the holes, never both *)
(* and never twice: insert_new cannot give one slot to two keys.           *)
THEOREM PartitionCorrect == Coherent => (Spec => []PointersPartitioned)
<1>1. IInv => PointersPartitioned
  BY DEF IInv
<1>. QED
  BY <1>1, Inductive, PTL

(* len() is the number of keys the cache answers for.                      *)
THEOREM SizeCorrect == Coherent => (Spec => []SizeIsLiveCount)
<1>1. IInv => SizeIsLiveCount
  BY DEF IInv
<1>. QED
  BY <1>1, Inductive, PTL

(* No iterator and no forEach ever meets a slot that was never written,    *)
(* whatever is set, deleted or cleared under it: the expect cannot fail.   *)
THEOREM WalksSafe == Coherent => (Spec => []WalksNeverPanic)
<1>. QED
  BY IInvImplies, Inductive, PTL

-----------------------------------------------------------------------------
(* Lists of pointers *)

LEMMA LeastMember ==
    ASSUME NEW S \in SUBSET Nat, S # {}
    PROVE  \E i \in S : \A j \in S : i <= j
<1>1. IsWellFoundedOn(OpToRel(<, Nat), Nat)
  BY NatLessThanWellFounded
<1>2. PICK i \in S : \A j \in S : <<j, i>> \notin OpToRel(<, Nat)
  BY <1>1, WFMin
<1>3. \A j \in S : ~(j < i)
  BY <1>2, Zenon DEF OpToRel
<1>. QED
  BY <1>3

(* The n pointers of ps are distinct, and f and b lead along them.         *)
Distinct(ps, n) ==
    /\ ps \in [1 .. n -> Ptr]
    /\ \A i, j \in 1 .. n : ps[i] = ps[j] => i = j

Linked(ps, n, f, b) ==
    \A i \in 1 .. n - 1 : f[ps[i]] = ps[i + 1] /\ b[ps[i + 1]] = ps[i]

(* ps with its m-th element moved to the front; ps with p put in front.    *)
Fronted(ps, n, m) ==
    [i \in 1 .. n |-> IF i = 1 THEN ps[m] ELSE IF i <= m THEN ps[i - 1] ELSE ps[i]]
Pushed(ps, n, p) == [i \in 1 .. n + 1 |-> IF i = 1 THEN p ELSE ps[i - 1]]

(* q has the elements of ps, the m-th of them in front.                    *)
Reorders(q, ps, n, m) ==
    /\ Distinct(q, n)
    /\ \A i \in 1 .. n : \E j \in 1 .. n : q[j] = ps[i]
    /\ \A j \in 1 .. n : \E i \in 1 .. n : q[j] = ps[i]
    /\ q[1] = ps[m]
    /\ q[n] = IF m = n /\ n > 1 THEN ps[n - 1] ELSE ps[n]

LEMMA FrontedDistinct ==
    ASSUME NEW n \in Nat, NEW m \in 1 .. n, NEW ps, Distinct(ps, n)
    PROVE  Reorders(Fronted(ps, n, m), ps, n, m)
<1> DEFINE q == Fronted(ps, n, m)
           from(i) == IF i = 1 THEN m ELSE IF i <= m THEN i - 1 ELSE i
<1>1. \A i \in 1 .. n : from(i) \in 1 .. n
  OBVIOUS
<1>2. \A i \in 1 .. n : q[i] = ps[from(i)]
  BY DEF Fronted
<1>3. \A i, j \in 1 .. n : from(i) = from(j) => i = j
  OBVIOUS
<1>4. \A i \in 1 .. n : \E j \in 1 .. n : from(j) = i
  <2> TAKE i \in 1 .. n
  <2> DEFINE j == IF i = m THEN 1 ELSE IF i < m THEN i + 1 ELSE i
  <2>1. j \in 1 .. n /\ from(j) = i
    OBVIOUS
  <2>. QED
    BY <2>1
<1>5. q = [i \in 1 .. n |-> q[i]]
  BY DEF Fronted
<1> HIDE DEF from, q
<1>6. q \in [1 .. n -> Ptr]
  <2>1. \A i \in 1 .. n : q[i] \in Ptr
    BY <1>1, <1>2 DEF Distinct
  <2>. QED
    BY <1>5, <2>1
<1>7. \A i, j \in 1 .. n : q[i] = q[j] => i = j
  BY <1>1, <1>2, <1>3 DEF Distinct
<1>8. \A i \in 1 .. n : \E j \in 1 .. n : q[j] = ps[i]
  BY <1>2, <1>4
<1>9. \A j \in 1 .. n : \E i \in 1 .. n : q[j] = ps[i]
  BY <1>1, <1>2
<1>10. q[1] = ps[m] /\ q[n] = IF m = n /\ n > 1 THEN ps[n - 1] ELSE ps[n]
  BY <1>2 DEF from
<1>. QED
  BY <1>6, <1>7, <1>8, <1>9, <1>10 DEF Distinct, Reorders, q

(* The links a move to the front must change, and that no others need to.  *)
LEMMA FrontedLinked ==
    ASSUME NEW n \in Nat, NEW m \in 2 .. n, NEW ps,
           NEW f, NEW b, NEW g, NEW c, Linked(ps, n, f, b),
           g[ps[m]] = ps[1], c[ps[1]] = ps[m],
           m < n => g[ps[m - 1]] = ps[m + 1] /\ c[ps[m + 1]] = ps[m - 1],
           \A i \in 1 .. n : i # m /\ i # m - 1 => g[ps[i]] = f[ps[i]],
           \A i \in 1 .. n : i # 1 /\ i # m + 1 => c[ps[i]] = b[ps[i]]
    PROVE  Linked(Fronted(ps, n, m), n, g, c)
<1> DEFINE q == Fronted(ps, n, m)
<1>1. \A i \in 1 .. n : q[i] = IF i = 1 THEN ps[m] ELSE IF i <= m THEN ps[i - 1] ELSE ps[i]
  BY DEF Fronted
<1> HIDE DEF q
<1>2. ASSUME NEW i \in 1 .. n - 1 PROVE g[q[i]] = q[i + 1] /\ c[q[i + 1]] = q[i]
  <2>1. CASE i = 1
    BY <1>1, <2>1
  <2>2. CASE i \in 2 .. m - 1
    <3>1. q[i] = ps[i - 1] /\ q[i + 1] = ps[i]
      BY <1>1, <2>2
    <3>2. f[ps[i - 1]] = ps[i] /\ b[ps[i]] = ps[i - 1]
      BY <2>2 DEF Linked
    <3>3. g[ps[i - 1]] = f[ps[i - 1]]
      BY <2>2
    <3>4. c[ps[i]] = b[ps[i]]
      BY <2>2
    <3>. QED
      BY <3>1, <3>2, <3>3, <3>4
  <2>3. CASE i = m
    <3>1. q[i] = ps[m - 1] /\ q[i + 1] = ps[m + 1]
      BY <1>1, <2>3
    <3>. QED
      BY <2>3, <3>1
  <2>4. CASE i > m
    <3>1. q[i] = ps[i] /\ q[i + 1] = ps[i + 1]
      BY <1>1, <2>4
    <3>2. f[ps[i]] = ps[i + 1] /\ b[ps[i + 1]] = ps[i]
      BY DEF Linked
    <3>3. g[ps[i]] = f[ps[i]] /\ c[ps[i + 1]] = b[ps[i + 1]]
      BY <2>4
    <3>. QED
      BY <3>1, <3>2, <3>3
  <2>. QED
    BY <2>1, <2>2, <2>3, <2>4
<1>. QED
  BY <1>2 DEF Linked, q

(* From f and b to g and c, p has been linked in front of ps.              *)
LinksFront(ps, n, p, f, b, g, c) ==
    /\ n > 0 => g[p] = ps[1] /\ c[ps[1]] = p
    /\ \A i \in 1 .. n : g[ps[i]] = f[ps[i]]
    /\ \A i \in 2 .. n : c[ps[i]] = b[ps[i]]

LEMMA PushedProperties ==
    ASSUME NEW n \in Nat, NEW ps, Distinct(ps, n),
           NEW p \in Ptr, \A i \in 1 .. n : ps[i] # p,
           NEW f, NEW b, NEW g, NEW c, Linked(ps, n, f, b), LinksFront(ps, n, p, f, b, g, c)
    PROVE  /\ Distinct(Pushed(ps, n, p), n + 1)
           /\ Linked(Pushed(ps, n, p), n + 1, g, c)
           /\ Pushed(ps, n, p)[1] = p
           /\ \A i \in 1 .. n : Pushed(ps, n, p)[i + 1] = ps[i]
<1>0. /\ n > 0 => g[p] = ps[1] /\ c[ps[1]] = p
      /\ \A i \in 1 .. n : g[ps[i]] = f[ps[i]]
      /\ \A i \in 2 .. n : c[ps[i]] = b[ps[i]]
  BY DEF LinksFront
<1> DEFINE q == Pushed(ps, n, p)
<1>1. \A i \in 1 .. n + 1 : q[i] = IF i = 1 THEN p ELSE ps[i - 1]
  BY DEF Pushed
<1>2. q \in [1 .. n + 1 -> Ptr]
  BY DEF Pushed, Distinct
<1> HIDE DEF q
<1>3. \A i, j \in 1 .. n + 1 : q[i] = q[j] => i = j
  <2> TAKE i, j \in 1 .. n + 1
  <2>1. CASE i = 1
    BY <1>1, <2>1
  <2>2. CASE i # 1
    <3>1. i - 1 \in 1 .. n /\ q[i] = ps[i - 1]
      BY <1>1, <2>2
    <3>2. CASE j = 1
      BY <1>1, <3>1, <3>2
    <3>3. CASE j # 1
      <4>1. j - 1 \in 1 .. n /\ q[j] = ps[j - 1]
        BY <1>1, <3>3
      <4>2. ps[i - 1] = ps[j - 1] => i - 1 = j - 1
        BY <3>1, <4>1 DEF Distinct
      <4>3. i - 1 = j - 1 => i = j
        OBVIOUS
      <4>. QED
        BY <3>1, <4>1, <4>2, <4>3
    <3>. QED
      BY <3>2, <3>3
  <2>. QED
    BY <2>1, <2>2
<1>4. ASSUME NEW i \in 1 .. n PROVE g[q[i]] = q[i + 1] /\ c[q[i + 1]] = q[i]
  <2>1. q[i + 1] = ps[i]
    BY <1>1
  <2>2. CASE i = 1
    BY <1>0, <1>1, <2>1, <2>2
  <2>3. CASE i # 1
    <3>1. i - 1 \in 1 .. n - 1 /\ q[i] = ps[i - 1] /\ (i - 1) + 1 = i /\ i \in 2 .. n
      BY <1>1, <2>3
    <3>2. f[ps[i - 1]] = ps[i] /\ b[ps[i]] = ps[i - 1]
      BY <3>1 DEF Linked
    <3>3. g[ps[i - 1]] = f[ps[i - 1]] /\ c[ps[i]] = b[ps[i]]
      BY <1>0, <3>1
    <3>. QED
      BY <2>1, <3>1, <3>2, <3>3
  <2>. QED
    BY <2>2, <2>3
<1>5. q[1] = p /\ \A i \in 1 .. n : q[i + 1] = ps[i]
  BY <1>1
<1>6. Linked(q, n + 1, g, c)
  BY <1>4 DEF Linked
<1>. QED
  BY <1>2, <1>3, <1>5, <1>6 DEF Distinct, q

-----------------------------------------------------------------------------
(* The recency list *)

Chain(ps) ==
    /\ Distinct(ps, size) /\ Linked(ps, size, forward, backward)
    /\ \A i \in 1 .. size : ps[i] \in Live
    /\ \A p \in Live : \E i \in 1 .. size : ps[i] = p
    /\ size > 0 => head = ps[1] /\ tail = ps[size]

(* The tail's forward is left over from earlier calls, yet always points   *)
(* at a live slot: the first entry of an empty cache points at itself.     *)
ForwardStaysLive == \A p \in Live : forward[p] \in Live

EmptyAtZero == size = 0 => head = 0 /\ tail = 0

LInv ==
    /\ IInv
    /\ holes_len = 0
    /\ EmptyAtZero
    /\ ForwardStaysLive
    /\ FreshWalksReportCached
    /\ \E ps : Chain(ps)

(* With no holes the live slots are the first size ones.                   *)
LEMMA LiveSlots ==
    ASSUME LInv
    PROVE  /\ Live = 0 .. size - 1 /\ size \in 0 .. Capacity /\ size \in Nat
           /\ Live \subseteq Ptr
           /\ \A p \in Live : \E ik \in IndexKeys : index[ik] = p
           /\ \A ik \in IndexKeys : index[ik] # None => index[ik] \in Live
           /\ \A ik \in IndexKeys : index[ik] # None =>
                  keys[index[ik]] \in Keys /\ IndexOf[keys[index[ik]]] = ik
<1>1. TypeOK /\ IndexConsistent /\ PointersPartitioned /\ holes_len = 0
  BY DEF LInv, IInv
<1>2. size \in 0 .. Capacity /\ size \in Nat
  BY <1>1, CapacityAssumption DEF TypeOK
<1>3. Holes = {}
  BY <1>1 DEF Holes
<1>4. Live = 0 .. size - 1
  BY <1>1, <1>2, <1>3 DEF PointersPartitioned
<1>5. Live \subseteq Ptr
  BY <1>1, LiveFinite
<1>6. \A ik \in IndexKeys : index[ik] # None =>
          keys[index[ik]] \in Keys /\ IndexOf[keys[index[ik]]] = ik
  <2> TAKE ik \in IndexKeys
  <2> HAVE index[ik] # None
  <2>1. index[ik] \in Ptr /\ keys \in [Ptr -> Keys \cup {None}]
    BY <1>1 DEF TypeOK
  <2>. QED
    BY <1>1, <2>1 DEF IndexConsistent
<1>. QED
  BY <1>2, <1>4, <1>5, <1>6 DEF Live

(* splay_on_top moves its pointer to the front of the list.                *)
LEMMA SplayFronts ==
    ASSUME LInv, NEW ps, Chain(ps), NEW m \in 1 .. size, SplayOnTop(ps[m]),
           size' = size, index' = index
    PROVE  /\ Chain(Fronted(ps, size, m))'
           /\ EmptyAtZero' /\ ForwardStaysLive' /\ Live' = Live
<1> DEFINE n == size
           p == ps[m]
           q == Fronted(ps, n, m)
<1>1. /\ n \in Nat /\ n > 0 /\ m \in 1 .. n /\ Live \subseteq Ptr
      /\ Distinct(ps, n) /\ Linked(ps, n, forward, backward)
      /\ head = ps[1] /\ tail = ps[n] /\ p \in Live
      /\ \A i \in 1 .. n : ps[i] \in Live
      /\ \A r \in Live : \E i \in 1 .. n : ps[i] = r
  BY LiveSlots DEF Chain
<1>2. /\ forward \in [Ptr -> Ptr] /\ backward \in [Ptr -> Ptr] /\ head \in Ptr /\ tail \in Ptr
      /\ \A r \in Live : forward[r] \in Live
  BY DEF LInv, IInv, TypeOK, ForwardStaysLive
<1>3. Live' = Live
  BY DEF Live
<1>4. EmptyAtZero'
  BY <1>1 DEF EmptyAtZero
<1>5. /\ Distinct(q, n)
      /\ \A i \in 1 .. n : \E j \in 1 .. n : q[j] = ps[i]
      /\ \A j \in 1 .. n : \E i \in 1 .. n : q[j] = ps[i]
      /\ q[1] = p
      /\ q[n] = IF m = n /\ n > 1 THEN ps[n - 1] ELSE ps[n]
  <2>1. n \in Nat /\ m \in 1 .. n /\ Distinct(ps, n)
    BY <1>1
  <2> HIDE DEF n
  <2>2. Reorders(q, ps, n, m)
    BY <2>1, FrontedDistinct
  <2>. QED
    BY <2>2 DEF Reorders
<1>10. q' = q
  BY DEF q
<1> HIDE DEF q
<1>6. /\ \A i \in 1 .. n : q[i] \in Live
      /\ \A r \in Live : \E i \in 1 .. n : q[i] = r
  BY <1>1, <1>5, SMTT(60)
<1>7. ASSUME Linked(q, n, forward', backward'), head' = p,
             tail' = IF m = n /\ n > 1 THEN ps[n - 1] ELSE ps[n]
      PROVE  Chain(q)'
  BY <1>3, <1>5, <1>6, <1>7, <1>10 DEF Chain
<1>8. CASE m = 1
  <2>1. UNCHANGED lists
    BY <1>1, <1>8 DEF SplayOnTop
  <2>2. q = ps
    <3>1. \A i \in 1 .. n : q[i] = ps[i]
      BY <1>1, <1>8 DEF q, Fronted
    <3>. QED
      BY <1>1, <1>5, <3>1 DEF Distinct
  <2>3. Chain(q)'
    BY <1>1, <1>5, <1>7, <1>8, <2>1, <2>2 DEF lists
  <2>. QED
    BY <1>2, <1>3, <1>4, <2>1, <2>3 DEF lists, ForwardStaysLive, q
<1>9. CASE m # 1
  <2> DEFINE previous == backward[p]
             next == forward[p]
             relinked == IF p = tail THEN backward
                         ELSE [backward EXCEPT ![next] = previous]
  <2>1. m \in 2 .. n /\ m - 1 \in 1 .. n - 1 /\ (m - 1) + 1 = m /\ m - 1 \in 1 .. n
    BY <1>1, <1>9
  <2>2. p # head /\ previous = ps[m - 1]
    BY <1>1, <2>1 DEF Distinct, Linked
  <2>3. m < n => next = ps[m + 1] /\ p # tail
    BY <1>1, <2>1 DEF Distinct, Linked
  <2>4. m = n => p = tail
    BY <1>1
  <2>5. /\ tail' = IF p = tail THEN previous ELSE tail
        /\ backward' = [relinked EXCEPT ![head] = p]
        /\ forward' = [forward EXCEPT ![previous] = next, ![p] = head]
        /\ head' = p
    BY <2>2 DEF SplayOnTop
  <2>6. /\ previous \in Ptr /\ next \in Live /\ p \in Ptr /\ head \in Live
        /\ previous # p
    BY <1>1, <1>2, <2>1, <2>2 DEF Distinct
  <2>7. \A r \in Ptr : forward'[r] = IF r = p THEN head
                                     ELSE IF r = previous THEN next ELSE forward[r]
    BY <1>2, <2>5, <2>6
  <2>8. \A r \in Ptr : relinked[r] = IF p # tail /\ r = next THEN previous ELSE backward[r]
    BY <1>1, <1>2, <2>6
  <2>9. relinked \in [Ptr -> Ptr]
    BY <1>1, <1>2, <2>6
  <2> HIDE DEF relinked
  <2>10. \A r \in Ptr : backward'[r] = IF r = head THEN p ELSE relinked[r]
    BY <1>2, <2>5, <2>9
  <2> HIDE DEF previous, next, p
  <2>11. \A i \in 1 .. n : ps[i] \in Ptr
    BY <1>1
  <2>12. forward'[ps[m]] = ps[1] /\ backward'[ps[1]] = ps[m]
    BY <1>1, <2>1, <2>7, <2>10, <2>11 DEF p
  <2>13. m < n => forward'[ps[m - 1]] = ps[m + 1] /\ backward'[ps[m + 1]] = ps[m - 1]
    <3> HAVE m < n
    <3>1. next = ps[m + 1] /\ p # tail /\ m + 1 \in 1 .. n
      BY <1>1, <2>1, <2>3
    <3>2. ps[m + 1] # head
      BY <1>1, <2>1, <3>1 DEF Distinct
    <3>. QED
      BY <2>1, <2>2, <2>6, <2>7, <2>8, <2>10, <2>11, <3>1, <3>2
  <2>14. \A i \in 1 .. n : i # m /\ i # m - 1 => forward'[ps[i]] = forward[ps[i]]
    BY <1>1, <2>1, <2>2, <2>7, <2>11 DEF Distinct, p
  <2>15. \A i \in 1 .. n : i # 1 /\ i # m + 1 => backward'[ps[i]] = backward[ps[i]]
    <3> TAKE i \in 1 .. n
    <3> HAVE i # 1 /\ i # m + 1
    <3>1. ps[i] # head
      BY <1>1 DEF Distinct
    <3>2. p # tail => ps[i] # next
      <4> HAVE p # tail
      <4>1. m < n /\ m + 1 \in 1 .. n
        BY <1>1, <2>4
      <4>. QED
        BY <1>1, <2>3, <4>1 DEF Distinct
    <3>. QED
      BY <2>8, <2>10, <2>11, <3>1, <3>2
  <2>16. Linked(q, n, forward', backward')
    BY <1>1, <2>1, <2>12, <2>13, <2>14, <2>15, FrontedLinked DEF q
  <2>17. tail' = IF m = n /\ n > 1 THEN ps[n - 1] ELSE ps[n]
    BY <1>1, <2>1, <2>2, <2>3, <2>4, <2>5
  <2>18. Chain(q)'
    BY <1>7, <2>5, <2>16, <2>17
  <2>19. ForwardStaysLive'
    BY <1>1, <1>2, <1>3, <2>6, <2>7 DEF ForwardStaysLive
  <2>. QED
    BY <1>3, <1>4, <2>18, <2>19 DEF q
<1>. QED
  BY <1>8, <1>9

(* insert_new puts its pointer in front: the next unused one, or that of   *)
(* the tail, which it evicts.                                              *)
LEMMA InsertFronts ==
    ASSUME LInv, Coherent, NEW ps, Chain(ps), NEW n \in Nat, n = size,
           NEW k \in Keys, NEW v \in Values,
           index[IndexOf[k]] = None, InsertNew(IndexOf[k], k, v)
    PROVE  /\ IF Full
              THEN /\ Chain(Fronted(ps, n, n))' /\ NewPointer = ps[n] /\ size' = n
                   /\ n > 0 /\ NewPointer \in Live
              ELSE /\ Chain(Pushed(ps, n, n))' /\ NewPointer = n /\ size' = n + 1
                   /\ NewPointer \notin Live
           /\ EmptyAtZero' /\ ForwardStaysLive' /\ holes_len' = 0
           /\ Live' = Live \cup {NewPointer}
<1> DEFINE p == NewPointer
<1>1. /\ Live = 0 .. n - 1 /\ n \in 0 .. Capacity /\ Live \subseteq Ptr /\ Capacity \in Nat \ {0}
      /\ Distinct(ps, n) /\ Linked(ps, n, forward, backward)
      /\ \A i \in 1 .. n : ps[i] \in Live
      /\ \A r \in Live : \E i \in 1 .. n : ps[i] = r
      /\ n > 0 => head = ps[1] /\ tail = ps[n]
      /\ n = 0 => head = 0 /\ tail = 0
      /\ Full <=> n = Capacity
  BY LiveSlots, CapacityAssumption DEF Chain, Full, LInv, EmptyAtZero
<1>2. /\ forward \in [Ptr -> Ptr] /\ backward \in [Ptr -> Ptr] /\ head \in Ptr /\ tail \in Ptr
      /\ \A r \in Live : forward[r] \in Live
      /\ holes_len = 0
  BY DEF LInv, IInv, TypeOK, ForwardStaysLive
<1>3. /\ p \in Ptr /\ Live' = Live \cup {p}
      /\ Full => p \in Live
      /\ ~Full => p \notin Live
  BY NewPointerLive DEF LInv, IInv
<1>4. /\ size' = IF Full THEN n ELSE n + 1
      /\ holes_len' = 0
      /\ forward' = [forward EXCEPT ![p] = head]
      /\ backward' = [backward EXCEPT ![head] = p]
      /\ tail' = IF Full THEN backward[tail] ELSE tail
      /\ head' = p
  BY <1>2 DEF InsertNew
<1>5. p = IF Full THEN tail ELSE n
  BY <1>2 DEF NewPointer
<1> HIDE DEF p
<1>6. /\ \A r \in Ptr : forward'[r] = IF r = p THEN head ELSE forward[r]
      /\ \A r \in Ptr : backward'[r] = IF r = head THEN p ELSE backward[r]
  BY <1>2, <1>3, <1>4
<1>7. \A i \in 1 .. n : ps[i] \in Ptr
  BY <1>1
<1>8. EmptyAtZero'
  BY <1>1, <1>4 DEF EmptyAtZero
<1>9. ForwardStaysLive'
  <2>1. head \in Live \cup {p}
    <3>1. CASE n = 0
      BY <1>1, <1>5, <3>1
    <3>2. CASE n # 0
      BY <1>1, <3>2
    <3>. QED
      BY <3>1, <3>2
  <2>. QED
    BY <1>1, <1>2, <1>3, <1>6, <2>1, SMTT(60) DEF ForwardStaysLive
<1>10. CASE Full
  <2> DEFINE q == Fronted(ps, n, n)
  <2>1. n > 0 /\ n \in 1 .. n /\ p = ps[n] /\ tail = ps[n] /\ head = ps[1] /\ size' = n
    BY <1>1, <1>4, <1>5, <1>10
  <2>2. /\ Distinct(q, n)
        /\ \A i \in 1 .. n : \E j \in 1 .. n : q[j] = ps[i]
        /\ \A j \in 1 .. n : \E i \in 1 .. n : q[j] = ps[i]
        /\ q[1] = ps[n]
        /\ q[n] = IF n > 1 THEN ps[n - 1] ELSE ps[n]
    <3>1. n \in 1 .. n /\ Distinct(ps, n)
      BY <1>1, <2>1
    <3>2. Reorders(q, ps, n, n)
      BY <3>1, FrontedDistinct
    <3> HIDE DEF q
    <3>. QED
      BY <3>2 DEF Reorders
  <2> HIDE DEF q
  <2>3. tail' = q[n] /\ Linked(q, n, forward', backward')
    <3>1. CASE n = 1
      <4>1. Ptr = {0}
        BY <1>1, <1>10, <3>1 DEF Ptr
      <4>2. tail' = q[n]
        BY <1>2, <1>4, <1>7, <1>10, <2>1, <2>2, <3>1, <4>1
      <4>3. Linked(q, n, forward', backward')
        BY <3>1 DEF Linked
      <4>. QED
        BY <4>2, <4>3
    <3>2. CASE n # 1
      <4>1. n \in 2 .. n /\ n - 1 \in 1 .. n - 1 /\ (n - 1) + 1 = n /\ n > 1
        BY <2>1, <3>2
      <4>2. tail' = ps[n - 1]
        BY <1>1, <1>4, <1>10, <2>1, <4>1 DEF Linked
      <4>3. forward'[ps[n]] = ps[1] /\ backward'[ps[1]] = ps[n]
        BY <1>6, <1>7, <2>1
      <4>4. \A i \in 1 .. n : i # n /\ i # n - 1 => forward'[ps[i]] = forward[ps[i]]
        BY <1>1, <1>6, <1>7, <2>1, SMTT(60) DEF Distinct
      <4>5. \A i \in 1 .. n : i # 1 /\ i # n + 1 => backward'[ps[i]] = backward[ps[i]]
        BY <1>1, <1>6, <1>7, <2>1, SMTT(60) DEF Distinct
      <4>6. Linked(q, n, forward', backward')
        <5>1. PICK m \in 2 .. n : m = n
          BY <4>1
        <5>2. /\ Linked(ps, n, forward, backward)
              /\ forward'[ps[m]] = ps[1] /\ backward'[ps[1]] = ps[m]
              /\ m < n => /\ forward'[ps[m - 1]] = ps[m + 1]
                          /\ backward'[ps[m + 1]] = ps[m - 1]
              /\ \A i \in 1 .. n : i # m /\ i # m - 1 => forward'[ps[i]] = forward[ps[i]]
              /\ \A i \in 1 .. n : i # 1 /\ i # m + 1 => backward'[ps[i]] = backward[ps[i]]
          <6>1. forward'[ps[m]] = ps[1] /\ backward'[ps[1]] = ps[m] /\ ~(m < n)
            BY <4>3, <5>1
          <6>2. \A i \in 1 .. n : i # m /\ i # m - 1 => forward'[ps[i]] = forward[ps[i]]
            BY <4>4, <5>1, Zenon
          <6>3. \A i \in 1 .. n : i # 1 /\ i # m + 1 => backward'[ps[i]] = backward[ps[i]]
            BY <4>5, <5>1, Zenon
          <6>4. Linked(ps, n, forward, backward)
            BY <1>1
          <6>. QED
            BY <6>1, <6>2, <6>3, <6>4, Zenon
        <5>3. Linked(Fronted(ps, n, m), n, forward', backward')
          BY <5>2, FrontedLinked
        <5>. QED
          BY <5>1, <5>3 DEF q
      <4>. QED
        BY <2>2, <4>1, <4>2, <4>6
    <3>. QED
      BY <3>1, <3>2
  <2>4. Live' = Live
    BY <1>3, <1>10
  <2>5. /\ \A i \in 1 .. n : q[i] \in Live
        /\ \A r \in Live : \E i \in 1 .. n : q[i] = r
        /\ q[1] = p /\ Distinct(q, n)
    <3>1. ASSUME NEW i \in 1 .. n PROVE q[i] \in Live
      <4>1. PICK j \in 1 .. n : q[i] = ps[j]
        BY <2>2
      <4>. QED
        BY <1>1, <4>1
    <3>2. ASSUME NEW r \in Live PROVE \E i \in 1 .. n : q[i] = r
      <4>1. PICK j \in 1 .. n : ps[j] = r
        BY <1>1
      <4>2. PICK i \in 1 .. n : q[i] = ps[j]
        BY <2>2
      <4>. QED
        BY <4>1, <4>2
    <3>. QED
      BY <2>1, <2>2, <3>1, <3>2
  <2>6. Chain(q)'
    BY <1>4, <2>1, <2>3, <2>4, <2>5 DEF Chain, q
  <2>. QED
    BY <1>3, <1>4, <1>8, <1>9, <1>10, <2>1, <2>6 DEF p, q
<1>11. CASE ~Full
  <2> DEFINE q == Pushed(ps, n, n)
  <2>1. /\ p = n /\ size' = n + 1 /\ tail' = tail /\ Live' = Live \cup {n} /\ n \in Ptr
        /\ \A i \in 1 .. n : ps[i] # n
    BY <1>1, <1>3, <1>4, <1>5, <1>11
  <2>2. LinksFront(ps, n, n, forward, backward, forward', backward')
    <3>1. n > 0 => forward'[n] = ps[1] /\ backward'[ps[1]] = n
      BY <1>1, <1>6, <1>7, <2>1
    <3>2. \A i \in 1 .. n : forward'[ps[i]] = forward[ps[i]]
      BY <1>1, <1>6, <1>7, <2>1
    <3>3. \A i \in 2 .. n : backward'[ps[i]] = backward[ps[i]]
      BY <1>1, <1>6, <1>7, <2>1, SMTT(60) DEF Distinct
    <3>. QED
      BY <3>1, <3>2, <3>3 DEF LinksFront
  <2>3. /\ Distinct(q, n + 1)
        /\ Linked(q, n + 1, forward', backward')
        /\ q[1] = n /\ \A i \in 1 .. n : q[i + 1] = ps[i]
    BY <1>1, <2>1, <2>2, PushedProperties, SMTT(60)
  <2> HIDE DEF q
  <2>4. \A i \in 1 .. n + 1 : q[i] \in Live \cup {n}
    <3> TAKE i \in 1 .. n + 1
    <3>1. CASE i = 1
      BY <2>3, <3>1 DEF q
    <3>2. CASE i # 1
      <4>1. i - 1 \in 1 .. n /\ (i - 1) + 1 = i
        BY <3>2
      <4>2. q[i] = ps[i - 1]
        BY <2>3, <4>1 DEF q
      <4>. QED
        BY <1>1, <4>1, <4>2
    <3>. QED
      BY <3>1, <3>2
  <2>5. \A r \in Live \cup {n} : \E i \in 1 .. n + 1 : q[i] = r
    <3> TAKE r \in Live \cup {n}
    <3>1. CASE r = n
      BY <2>3, <3>1 DEF q
    <3>2. CASE r \in Live
      <4>1. PICK i \in 1 .. n : ps[i] = r
        BY <1>1, <3>2
      <4>2. q[i + 1] = r /\ i + 1 \in 1 .. n + 1
        BY <2>3, <4>1 DEF q
      <4>. QED
        BY <4>2
    <3>. QED
      BY <3>1, <3>2
  <2>6. q[1] = n /\ tail' = q[n + 1]
    <3>1. CASE n = 0
      BY <1>1, <2>1, <2>3, <3>1 DEF q
    <3>2. CASE n # 0
      BY <1>1, <2>1, <2>3, <3>2, SMTT(60) DEF q
    <3>. QED
      BY <2>3, <3>1, <3>2 DEF q
  <2>7. Chain(q)'
    BY <1>4, <2>1, <2>3, <2>4, <2>5, <2>6 DEF Chain, q
  <2>. QED
    BY <1>3, <1>4, <1>8, <1>9, <1>11, <2>1, <2>7 DEF p, q
<1>. QED
  BY <1>10, <1>11

-----------------------------------------------------------------------------
(* The list by its definition *)

(* The definition of Nth, of any head and any links.                       *)
NthOf(h, f) == CHOOSE g : g = [i \in 0 .. Capacity |-> IF i = 0 THEN h ELSE f[g[i - 1]]]

LEMMA NthByDefinition == Nth = NthOf(head, forward) /\ Nth' = NthOf(head', forward')
  BY DEF Nth, NthOf

(* Following f from h is well defined however far one goes.                *)
LEMMA NthUnfolds ==
    ASSUME NEW h, NEW f
    PROVE  /\ NthOf(h, f)[0] = h
           /\ \A i \in 1 .. Capacity : NthOf(h, f)[i] = f[NthOf(h, f)[i - 1]]
<1> DEFINE Follows(g, n) == /\ g[0] = h
                            /\ \A i \in 1 .. n : g[i] = f[g[i - 1]]
           bad == {n \in Nat : ~ \E g : Follows(g, n)}
<1>1. bad = {}
  <2> SUFFICES ASSUME bad # {} PROVE FALSE
    OBVIOUS
  <2>1. PICK n \in bad : \A m \in bad : n <= m
    BY LeastMember
  <2>2. n # 0
    <3>1. Follows([i \in {0} |-> h], 0)
      OBVIOUS
    <3>. QED
      BY <3>1
  <2>3. n \in Nat \ {0} /\ n - 1 \in Nat /\ n - 1 \notin bad
    BY <2>1, <2>2
  <2>4. PICK g : Follows(g, n - 1)
    BY <2>3
  <2> DEFINE e == [i \in 0 .. n |-> IF i = n THEN f[g[n - 1]] ELSE g[i]]
  <2>5. e[0] = h
    BY <2>3, <2>4
  <2>6. ASSUME NEW i \in 1 .. n PROVE e[i] = f[e[i - 1]]
    <3>1. CASE i = n
      BY <2>3, <3>1
    <3>2. CASE i # n
      <4>1. i \in 1 .. n - 1 /\ e[i] = g[i] /\ e[i - 1] = g[i - 1]
        BY <2>3, <3>2, SMTT(60)
      <4>. QED
        BY <2>4, <4>1
    <3>. QED
      BY <3>1, <3>2
  <2>7. Follows(e, n)
    BY <2>5, <2>6
  <2>. QED
    BY <2>1, <2>7
<1>2. PICK g : Follows(g, Capacity)
  BY <1>1, CapacityAssumption
<1> DEFINE e == [i \in 0 .. Capacity |-> g[i]]
<1>3. e = [i \in 0 .. Capacity |-> IF i = 0 THEN h ELSE f[e[i - 1]]]
  <2>1. \A i \in 0 .. Capacity : e[i] = IF i = 0 THEN h ELSE f[e[i - 1]]
    BY <1>2, CapacityAssumption, SMTT(60)
  <2>. QED
    BY <2>1
<1> HIDE DEF e
<1>4. NthOf(h, f) = [i \in 0 .. Capacity |-> IF i = 0 THEN h ELSE f[NthOf(h, f)[i - 1]]]
  BY <1>3 DEF NthOf
<1>. QED
  BY <1>4, CapacityAssumption

(* So the list from h along f is any chain of links that begins at h.      *)
LEMMA NthOfLinked ==
    ASSUME NEW n \in 1 .. Capacity, NEW ps, NEW h, NEW f, NEW b,
           Linked(ps, n, f, b), h = ps[1]
    PROVE  \A i \in 1 .. n : NthOf(h, f)[i - 1] = ps[i]
<1> DEFINE N == NthOf(h, f)
           bad == {i \in 1 .. n : N[i - 1] # ps[i]}
<1>1. /\ N[0] = h
      /\ \A i \in 1 .. Capacity : N[i] = f[N[i - 1]]
  BY NthUnfolds
<1> HIDE DEF N
<1> SUFFICES ASSUME bad # {} PROVE FALSE
  BY DEF N
<1>2. PICK i \in bad : \A j \in bad : i <= j
  <2>1. bad \in SUBSET Nat
    OBVIOUS
  <2>. QED
    BY <2>1, LeastMember
<1>3. i # 1
  BY <1>1, <1>2
<1>4. i - 1 \in 1 .. n - 1 /\ i - 1 \in 1 .. Capacity /\ (i - 1) + 1 = i /\ i - 1 \notin bad
  BY <1>2, <1>3, CapacityAssumption
<1>5. N[(i - 1) - 1] = ps[i - 1]
  BY <1>4
<1>6. N[i - 1] = f[ps[i - 1]]
  BY <1>1, <1>4, <1>5
<1>7. f[ps[i - 1]] = ps[i]
  BY <1>4 DEF Linked
<1>. QED
  BY <1>2, <1>6, <1>7

-----------------------------------------------------------------------------
(* The invariant *)

LEMMA InitLInv == Init => LInv
<1> SUFFICES ASSUME Init PROVE LInv
  OBVIOUS
<1>1. IInv
  BY InitIInv
<1>2. size = 0 /\ head = 0 /\ tail = 0 /\ holes_len = 0 /\ Live = {}
  BY DEF Init, Live
<1>3. EmptyAtZero /\ ForwardStaysLive
  BY <1>2 DEF EmptyAtZero, ForwardStaysLive
<1>4. FreshWalksReportCached
  BY DEF Init, FreshWalksReportCached
<1>5. Chain([i \in 1 .. 0 |-> 0])
  BY <1>2 DEF Chain, Distinct, Linked
<1>. QED
  BY <1>1, <1>2, <1>3, <1>4, <1>5 DEF LInv

(* A set that finds its key moves the key's pointer to the front; one that *)
(* does not puts a new pointer or that of the tail there.                  *)
LEMMA WriteKeepsList ==
    ASSUME LInv, Coherent, NEW k \in Keys, NEW v \in Values, Write(k, v)
    PROVE  /\ EmptyAtZero' /\ ForwardStaysLive' /\ holes_len' = 0
           /\ Live \subseteq Live' /\ \E ps : Chain(ps)'
<1> DEFINE ik == IndexOf[k]
<1>1. PICK ps : Chain(ps)
  BY DEF LInv
<1>2. ik \in IndexKeys /\ size \in Nat
  BY KeyAssumption, LiveSlots
<1>3. CASE index[ik] # None
  <2>1. SplayOnTop(index[ik]) /\ UNCHANGED <<index, size, free>>
    BY <1>3 DEF Write, Overwrite
  <2>2. PICK m \in 1 .. size : ps[m] = index[ik]
    BY <1>1, <1>2, <1>3, LiveSlots DEF Chain
  <2>3. /\ Chain(Fronted(ps, size, m))'
        /\ EmptyAtZero' /\ ForwardStaysLive' /\ Live' = Live
    BY <1>1, <2>1, <2>2, SplayFronts
  <2>4. \E q : Chain(q)'
    BY <2>1, <2>3
  <2>. QED
    BY <2>1, <2>3, <2>4 DEF free, LInv
<1>4. CASE index[ik] = None
  <2>1. InsertNew(ik, k, v)
    BY <1>4 DEF Write
  <2>2. PICK n \in Nat : n = size
    BY <1>2
  <2>3. /\ IF Full THEN Chain(Fronted(ps, n, n))' ELSE Chain(Pushed(ps, n, n))'
        /\ EmptyAtZero' /\ ForwardStaysLive' /\ holes_len' = 0
        /\ Live' = Live \cup {NewPointer}
    BY <1>1, <1>4, <2>1, <2>2, InsertFronts
  <2>. QED
    BY <2>3
<1>. QED
  BY <1>3, <1>4

LEMMA GetKeepsList ==
    ASSUME LInv, NEW k \in Keys, Get(k)
    PROVE  /\ EmptyAtZero' /\ ForwardStaysLive' /\ holes_len' = 0
           /\ Live' = Live /\ \E ps : Chain(ps)'
<1> DEFINE ik == IndexOf[k]
<1>1. PICK ps : Chain(ps)
  BY DEF LInv
<1>2. ik \in IndexKeys
  BY KeyAssumption
<1>3. UNCHANGED <<keys, values, holes, holes_len, index, size, walk>>
  BY DEF Get, slots, free
<1>4. CASE index[ik] # None
  <2>1. SplayOnTop(index[ik])
    BY <1>4 DEF Get
  <2>2. PICK m \in 1 .. size : ps[m] = index[ik]
    BY <1>1, <1>2, <1>4, LiveSlots DEF Chain
  <2>3. /\ Chain(Fronted(ps, size, m))'
        /\ EmptyAtZero' /\ ForwardStaysLive' /\ Live' = Live
    BY <1>1, <1>3, <2>1, <2>2, SplayFronts
  <2>4. \E q : Chain(q)'
    BY <1>3, <2>3
  <2>. QED
    BY <1>3, <2>3, <2>4 DEF LInv
<1>5. CASE index[ik] = None
  <2>1. UNCHANGED <<forward, backward, head, tail>>
    BY <1>5 DEF Get, lists
  <2>2. Live' = Live
    BY <1>3 DEF Live
  <2>3. Chain(ps)'
    BY <1>1, <1>3, <2>1, <2>2 DEF Chain
  <2>. QED
    BY <1>3, <2>1, <2>2, <2>3 DEF LInv, EmptyAtZero, ForwardStaysLive
<1>. QED
  BY <1>4, <1>5

LEMMA ClearKeepsList ==
    ASSUME LInv, Clear
    PROVE  /\ EmptyAtZero' /\ ForwardStaysLive' /\ holes_len' = 0
           /\ FreshWalksReportCached' /\ \E ps : Chain(ps)'
<1>1. /\ size' = 0 /\ head' = 0 /\ tail' = 0 /\ holes_len' = 0
      /\ index' = [ik \in IndexKeys |-> None]
      /\ walk' = [w \in Walks |-> [walk[w] EXCEPT !.fresh = @ /\ walk[w].remaining = 0]]
  BY DEF Clear, Outdate
<1>2. Live' = {}
  BY <1>1 DEF Live
<1>3. EmptyAtZero' /\ ForwardStaysLive'
  BY <1>1, <1>2 DEF EmptyAtZero, ForwardStaysLive
<1>4. Chain([i \in 1 .. 0 |-> 0])'
  BY <1>1, <1>2 DEF Chain, Distinct, Linked
<1>5. FreshWalksReportCached'
  <2>1. ASSUME NEW w \in Walks
        PROVE  ~(walk'[w].fresh /\ walk'[w].remaining > 0)
    <3>1. walk[w] \in [pointer : Ptr, remaining : 0 .. Capacity, fresh : BOOLEAN]
      BY DEF LInv, IInv, TypeOK
    <3>2. /\ walk'[w].remaining = walk[w].remaining
          /\ walk'[w].fresh = (walk[w].fresh /\ walk[w].remaining = 0)
      BY <1>1, <3>1
    <3>3. walk'[w].fresh => walk[w].remaining = 0
      BY <3>2, Zenon
    <3>4. walk'[w].remaining = 0 => ~(walk'[w].remaining > 0)
      OBVIOUS
    <3>. QED
      BY <3>2, <3>3, <3>4, Zenon
  <2>. QED
    BY <2>1 DEF FreshWalksReportCached
<1>. QED
  BY <1>1, <1>3, <1>4, <1>5

LEMMA WalkKeepsList ==
    ASSUME LInv, NEW w \in Walks, OpenWalk(w) \/ AdvanceWalk(w)
    PROVE  /\ EmptyAtZero' /\ ForwardStaysLive' /\ holes_len' = 0
           /\ FreshWalksReportCached' /\ \E ps : Chain(ps)'
<1>1. UNCHANGED <<forward, backward, head, tail, keys, values, holes, holes_len,
                  index, size, popped>>
  BY DEF OpenWalk, AdvanceWalk, lists, slots, free
<1>2. Live' = Live
  BY <1>1 DEF Live
<1>3. PICK ps : Chain(ps)
  BY DEF LInv
<1>4. Chain(ps)'
  BY <1>1, <1>2, <1>3 DEF Chain
<1>5. /\ walk \in [Walks -> [pointer : Ptr, remaining : 0 .. Capacity, fresh : BOOLEAN]]
      /\ forward \in [Ptr -> Ptr] /\ head \in Ptr /\ size \in 0 .. Capacity
      /\ Capacity \in Nat
  BY CapacityAssumption DEF LInv, IInv, TypeOK
<1>6. FreshWalksReportCached'
  <2>1. CASE OpenWalk(w)
    <3>1. walk' = [walk EXCEPT ![w] = [pointer |-> head, remaining |-> size, fresh |-> TRUE]]
      BY <2>1 DEF OpenWalk
    <3>2. size > 0 => head \in Live
      BY <1>3, <1>5 DEF Chain
    <3>. QED
      BY <1>2, <1>5, <3>1, <3>2 DEF LInv, FreshWalksReportCached
  <2>2. CASE AdvanceWalk(w)
    <3>1. /\ walk[w].remaining > 0
          /\ walk' = [walk EXCEPT ![w].pointer = forward[@], ![w].remaining = @ - 1]
      BY <2>2 DEF AdvanceWalk
    <3>2. walk[w].fresh => forward[walk[w].pointer] \in Live
      BY <3>1 DEF LInv, FreshWalksReportCached, ForwardStaysLive
    <3>3. /\ walk'[w].pointer = forward[walk[w].pointer]
          /\ walk'[w].fresh = walk[w].fresh
          /\ \A u \in Walks : u # w => walk'[u] = walk[u]
      BY <1>5, <3>1
    <3>. QED
      BY <1>2, <3>2, <3>3 DEF LInv, FreshWalksReportCached
  <2>. QED
    BY <2>1, <2>2
<1>. QED
  BY <1>1, <1>2, <1>4, <1>6 DEF LInv, EmptyAtZero, ForwardStaysLive

(* Every step but a deletion keeps the invariant.                          *)
PlainNext ==
    \/ \E k \in Keys, v \in Values : Set(k, v) \/ SetPop(k, v)
    \/ \E k \in Keys : Get(k)
    \/ Clear
    \/ \E w \in Walks : OpenWalk(w) \/ AdvanceWalk(w)

LEMMA PlainNextPreserves ==
    ASSUME LInv, Coherent, [PlainNext]_vars
    PROVE  LInv'
<1>1. IInv'
  BY NextPreserves DEF LInv, PlainNext, Next
<1>2. ASSUME UNCHANGED walk, Live \subseteq Live' PROVE FreshWalksReportCached'
  BY <1>2 DEF LInv, FreshWalksReportCached
<1>3. ASSUME NEW k \in Keys, NEW v \in Values, Set(k, v) \/ SetPop(k, v) PROVE LInv'
  <2>1. Write(k, v) /\ UNCHANGED walk
    BY <1>3 DEF Set, SetPop
  <2>2. /\ EmptyAtZero' /\ ForwardStaysLive' /\ holes_len' = 0
        /\ Live \subseteq Live' /\ \E ps : Chain(ps)'
    BY <2>1, WriteKeepsList
  <2>. QED
    BY <1>1, <1>2, <2>1, <2>2 DEF LInv
<1>4. ASSUME NEW k \in Keys, Get(k) PROVE LInv'
  <2>1. UNCHANGED walk
    BY <1>4 DEF Get
  <2>2. /\ EmptyAtZero' /\ ForwardStaysLive' /\ holes_len' = 0
        /\ Live' = Live /\ \E ps : Chain(ps)'
    BY <1>4, GetKeepsList
  <2>. QED
    BY <1>1, <1>2, <2>1, <2>2 DEF LInv
<1>5. CASE Clear
  BY <1>1, <1>5, ClearKeepsList DEF LInv
<1>6. ASSUME NEW w \in Walks, OpenWalk(w) \/ AdvanceWalk(w) PROVE LInv'
  BY <1>1, <1>6, WalkKeepsList DEF LInv
<1>7. CASE UNCHANGED vars
  <2>1. Live' = Live
    BY <1>7 DEF vars, Live
  <2>2. PICK ps : Chain(ps)
    BY DEF LInv
  <2>3. Chain(ps)'
    BY <1>7, <2>1, <2>2 DEF vars, Chain
  <2>. QED
    BY <1>1, <1>2, <1>7, <2>1, <2>3 DEF vars, LInv, EmptyAtZero, ForwardStaysLive
<1>. QED
  BY <1>3, <1>4, <1>5, <1>6, <1>7 DEF PlainNext

-----------------------------------------------------------------------------
(* Sequences with an element put in front *)

LEMMA ConcatFronts ==
    ASSUME NEW S, NEW s \in Seq(S), NEW m \in 1 .. Len(s)
    PROVE  <<s[m]>> \o (SubSeq(s, 1, m - 1) \o SubSeq(s, m + 1, Len(s)))
           = Fronted(s, Len(s), m)
<1> DEFINE n == Len(s)
           a == SubSeq(s, 1, m - 1)
           b == SubSeq(s, m + 1, n)
<1>1. n \in Nat /\ s \in [1 .. n -> S] /\ s[m] \in S
  BY LenProperties
<1>2. /\ a \in Seq(S) /\ Len(a) = m - 1
      /\ \A i \in 1 .. m - 1 : a[i] = s[i]
  <2>1. \A i \in 1 .. m - 1 : s[i] \in S
    BY <1>1
  <2>2. /\ a \in Seq(S)
        /\ Len(a) = IF 1 <= m - 1 THEN (m - 1) - 1 + 1 ELSE 0
        /\ \A i \in 1 .. (m - 1) - 1 + 1 : a[i] = s[1 + i - 1]
    BY <1>1, <2>1, SubSeqProperties
  <2>. QED
    BY <1>1, <2>2
<1>3. /\ b \in Seq(S) /\ Len(b) = n - m
      /\ \A i \in 1 .. n - m : b[i] = s[m + i]
  <2>1. \A i \in m + 1 .. n : s[i] \in S
    BY <1>1
  <2>2. /\ b \in Seq(S)
        /\ Len(b) = IF m + 1 <= n THEN n - (m + 1) + 1 ELSE 0
        /\ \A i \in 1 .. n - (m + 1) + 1 : b[i] = s[(m + 1) + i - 1]
    BY <1>1, <2>1, SubSeqProperties
  <2>3. n \in Nat /\ m \in Nat /\ m <= n
    BY <1>1
  <2> HIDE DEF b, n
  <2>4. n - (m + 1) + 1 = n - m
    BY <2>3
  <2>5. (IF m + 1 <= n THEN n - (m + 1) + 1 ELSE 0) = n - m
    BY <2>3
  <2>6. \A i \in 1 .. n - m : (m + 1) + i - 1 = m + i
    BY <2>3
  <2>. QED
    BY <2>2, <2>4, <2>5, <2>6
<1> HIDE DEF a, b, n
<1>4. /\ a \o b \in Seq(S) /\ Len(a \o b) = n - 1
      /\ \A i \in 1 .. n - 1 : (a \o b)[i] = IF i < m THEN s[i] ELSE s[i + 1]
  <2>1. /\ a \o b \in Seq(S) /\ Len(a \o b) = (m - 1) + (n - m)
        /\ \A i \in 1 .. (m - 1) + (n - m) :
               (a \o b)[i] = IF i <= m - 1 THEN a[i] ELSE b[i - (m - 1)]
    <3>1. /\ a \o b \in Seq(S) /\ Len(a \o b) = Len(a) + Len(b)
          /\ \A i \in 1 .. Len(a) + Len(b) :
                 (a \o b)[i] = IF i <= Len(a) THEN a[i] ELSE b[i - Len(a)]
      BY <1>2, <1>3, ConcatProperties
    <3>. QED
      BY <1>2, <1>3, <3>1
  <2>2. m \in Nat /\ m <= n /\ (m - 1) + (n - m) = n - 1
    BY <1>1 DEF n
  <2>3. ASSUME NEW i \in 1 .. n - 1 PROVE (a \o b)[i] = IF i < m THEN s[i] ELSE s[i + 1]
    <3>1. CASE i < m
      BY <1>2, <2>1, <2>2, <3>1
    <3>2. CASE ~(i < m)
      <4>1. /\ i - (m - 1) \in 1 .. n - m /\ m + (i - (m - 1)) = i + 1
            /\ ~(i <= m - 1)
        BY <1>1, <2>2, <3>2
      <4>. QED
        BY <1>3, <2>1, <2>2, <3>2, <4>1
    <3>. QED
      BY <3>1, <3>2
  <2>. QED
    BY <2>1, <2>2, <2>3
<1> DEFINE c == a \o b
           t == <<s[m]>> \o c
<1> HIDE DEF c
<1>5. /\ t \in Seq(S) /\ Len(t) = n
      /\ \A i \in 1 .. n : t[i] = IF i = 1 THEN s[m] ELSE c[i - 1]
  <2>1. <<s[m]>> \in Seq(S) /\ Len(<<s[m]>>) = 1 /\ <<s[m]>>[1] = s[m]
    BY <1>1
  <2>2. c \in Seq(S) /\ Len(c) = n - 1
    BY <1>4 DEF c
  <2>3. /\ t \in Seq(S) /\ Len(t) = 1 + (n - 1)
        /\ \A i \in 1 .. 1 + (n - 1) : t[i] = IF i <= 1 THEN <<s[m]>>[i] ELSE c[i - 1]
    BY <2>1, <2>2, ConcatProperties
  <2>. QED
    BY <1>1, <2>1, <2>3
<1> HIDE DEF t
<1>6. \A i \in 1 .. n : t[i] = Fronted(s, n, m)[i]
  <2> TAKE i \in 1 .. n
  <2>1. i # 1 => /\ i - 1 \in 1 .. n - 1 /\ (i - 1) + 1 = i
                 /\ i - 1 < m <=> i <= m
    BY <1>1
  <2>2. m \in Nat
    BY <1>1
  <2>. QED
    BY <1>4, <1>5, <2>1, <2>2 DEF Fronted, c
<1>7. t = [i \in 1 .. n |-> t[i]]
  BY <1>5, LenProperties
<1>8. Fronted(s, n, m) = [i \in 1 .. n |-> Fronted(s, n, m)[i]]
  BY DEF Fronted
<1>9. t = Fronted(s, n, m)
  BY <1>6, <1>7, <1>8, Zenon
<1>. QED
  BY <1>9 DEF t, c, a, b, n

LEMMA ConcatPushes ==
    ASSUME NEW S, NEW s \in Seq(S), NEW e \in S
    PROVE  /\ <<e>> \o s = Pushed(s, Len(s), e)
           /\ Len(s) > 0 => SubSeq(<<e>> \o s, 1, Len(s))
                  = [i \in 1 .. Len(s) |-> IF i = 1 THEN e ELSE s[i - 1]]
<1> DEFINE n == Len(s)
           t == <<e>> \o s
<1>1. n \in Nat
  BY LenProperties
<1>2. /\ t \in Seq(S) /\ Len(t) = n + 1
      /\ \A i \in 1 .. n + 1 : t[i] = IF i = 1 THEN e ELSE s[i - 1]
  <2>1. <<e>> \in Seq(S) /\ Len(<<e>>) = 1 /\ <<e>>[1] = e
    OBVIOUS
  <2>2. /\ t \in Seq(S) /\ Len(t) = 1 + n
        /\ \A i \in 1 .. 1 + n : t[i] = IF i <= 1 THEN <<e>>[i] ELSE s[i - 1]
    BY <2>1, ConcatProperties
  <2>. QED
    BY <1>1, <2>1, <2>2
<1> HIDE DEF t
<1>3. t = Pushed(s, n, e)
  <2>1. t = [i \in 1 .. n + 1 |-> t[i]]
    BY <1>2, LenProperties
  <2>. QED
    BY <1>2, <2>1 DEF Pushed
<1>4. ASSUME n > 0
      PROVE  SubSeq(t, 1, n) = [i \in 1 .. n |-> IF i = 1 THEN e ELSE s[i - 1]]
  <2> DEFINE u == SubSeq(t, 1, n)
  <2>1. \A i \in 1 .. n : t[i] \in S
    BY <1>1, <1>2, LenProperties
  <2>2. /\ u \in Seq(S) /\ Len(u) = IF 1 <= n THEN n - 1 + 1 ELSE 0
        /\ \A i \in 1 .. n - 1 + 1 : u[i] = t[1 + i - 1]
    BY <1>1, <2>1, SubSeqProperties
  <2> HIDE DEF u
  <2>3. Len(u) = n /\ \A i \in 1 .. n : u[i] = t[i]
    BY <1>1, <1>4, <2>2
  <2>4. u = [i \in 1 .. n |-> u[i]]
    BY <2>2, <2>3, LenProperties
  <2>5. u = [i \in 1 .. n |-> IF i = 1 THEN e ELSE s[i - 1]]
    BY <1>1, <1>2, <2>3, <2>4
  <2>. QED
    BY <2>5 DEF u
<1>. QED
  BY <1>3, <1>4 DEF t

-----------------------------------------------------------------------------
(* The keys by recency *)

(* What the chain ps of n pointers says of the recency.                    *)
KeyList(ps, n, ks) == [i \in 1 .. n |-> IndexOf[ks[ps[i]]]]

(* The recency the links f spell out from h on, and that ps spells them.   *)
RecencyOf(n, h, f, ks) == [i \in 1 .. n |-> IndexOf[ks[NthOf(h, f)[i - 1]]]]
Spells(ps, n, h, f, b) == Linked(ps, n, f, b) /\ (n > 0 => h = ps[1])

LEMMA RecencyOfLinks ==
    ASSUME NEW n \in 0 .. Capacity, NEW ps, NEW h, NEW f, NEW b, NEW ks, Spells(ps, n, h, f, b)
    PROVE  RecencyOf(n, h, f, ks) = KeyList(ps, n, ks)
<1>1. ASSUME NEW i \in 1 .. n PROVE NthOf(h, f)[i - 1] = ps[i]
  <2>1. n \in 1 .. Capacity /\ h = ps[1] /\ Linked(ps, n, f, b)
    BY CapacityAssumption DEF Spells
  <2>. QED
    BY <2>1, NthOfLinked
<1>. QED
  BY <1>1 DEF KeyList, RecencyOf

LEMMA RecencyNext ==
    ASSUME LInv', NEW ps, Chain(ps)'
    PROVE  recency' = KeyList(ps, size', keys')
<1>1. size' \in 0 .. Capacity
  BY DEF LInv, IInv, TypeOK
<1>2. Spells(ps, size', head', forward', backward')
  BY DEF Chain, Spells
<1>3. RecencyOf(size', head', forward', keys') = KeyList(ps, size', keys')
  BY <1>1, <1>2, RecencyOfLinks
<1>4. recency' = [i \in 1 .. size' |-> IndexOf[keys'[Nth'[i - 1]]]]
  BY DEF recency
<1>. QED
  BY <1>3, <1>4, NthByDefinition DEF RecencyOf

LEMMA RecencyFacts ==
    ASSUME LInv, NEW ps, Chain(ps)
    PROVE  /\ recency = KeyList(ps, size, keys)
           /\ recency \in Seq(IndexKeys) /\ Len(recency) = size
           /\ DOMAIN recency = 1 .. size
           /\ \A i \in 1 .. size : /\ recency[i] = IndexOf[keys[ps[i]]]
                                   /\ recency[i] \in IndexKeys /\ index[recency[i]] = ps[i]
                                   /\ index[recency[i]] # None
           /\ \A i, j \in 1 .. size : recency[i] = recency[j] => i = j
           /\ \A ik \in IndexKeys : index[ik] # None =>
                  \E i \in 1 .. size : ps[i] = index[ik] /\ recency[i] = ik
<1>1. /\ size \in 0 .. Capacity /\ size \in Nat
      /\ \A p \in Live : \E ik \in IndexKeys : index[ik] = p
      /\ \A ik \in IndexKeys : index[ik] # None =>
             index[ik] \in Live /\ IndexOf[keys[index[ik]]] = ik
      /\ Live \subseteq Ptr
  BY LiveSlots
<1>2. /\ Distinct(ps, size) /\ Linked(ps, size, forward, backward)
      /\ \A i \in 1 .. size : ps[i] \in Live
      /\ \A p \in Live : \E i \in 1 .. size : ps[i] = p
      /\ size > 0 => head = ps[1]
  BY DEF Chain
<1>3. recency = KeyList(ps, size, keys)
  <2>0. Spells(ps, size, head, forward, backward)
    BY <1>2 DEF Spells
  <2>1. RecencyOf(size, head, forward, keys) = KeyList(ps, size, keys)
    BY <1>1, <2>0, RecencyOfLinks
  <2>2. recency = [i \in 1 .. size |-> IndexOf[keys[Nth[i - 1]]]]
    BY DEF recency
  <2>. QED
    BY <2>1, <2>2, NthByDefinition DEF RecencyOf
<1>4. \A i \in 1 .. size : recency[i] = IndexOf[keys[ps[i]]]
  BY <1>3 DEF KeyList
<1>5. ASSUME NEW i \in 1 .. size
      PROVE  recency[i] \in IndexKeys /\ index[recency[i]] = ps[i] /\ index[recency[i]] # None
  <2>1. PICK ik \in IndexKeys : index[ik] = ps[i]
    BY <1>1, <1>2
  <2>2. ps[i] # None
    BY <1>1, <1>2, NoneNotPtr
  <2>3. recency[i] = ik
    BY <1>1, <1>4, <2>1, <2>2
  <2>. QED
    BY <2>1, <2>2, <2>3
<1>6. recency \in Seq(IndexKeys) /\ Len(recency) = size /\ DOMAIN recency = 1 .. size
  <2>1. recency = [i \in 1 .. size |-> recency[i]]
    BY <1>3 DEF KeyList
  <2>2. recency \in [1 .. size -> IndexKeys]
    BY <1>5, <2>1
  <2>. QED
    BY <1>1, <2>2, SeqDef, LenProperties
<1>7. \A i, j \in 1 .. size : recency[i] = recency[j] => i = j
  BY <1>2, <1>5 DEF Distinct
<1>8. ASSUME NEW ik \in IndexKeys, index[ik] # None
      PROVE  \E i \in 1 .. size : ps[i] = index[ik] /\ recency[i] = ik
  BY <1>1, <1>2, <1>4, <1>8
<1>. QED
  BY <1>3, <1>4, <1>5, <1>6, <1>7, <1>8

LEMMA EntryFacts ==
    ASSUME LInv, NEW ik \in IndexKeys
    PROVE  /\ Abstract!Cached(ik) <=> index[ik] # None
           /\ index[ik] = None => entry[ik] = None
           /\ index[ik] # None =>
                  /\ entry[ik] = [key |-> keys[index[ik]], value |-> values[index[ik]]]
                  /\ entry[ik].key = keys[index[ik]] /\ entry[ik].value = values[index[ik]]
<1>1. ASSUME index[ik] # None
      PROVE  [key |-> keys[index[ik]], value |-> values[index[ik]]] \in [key : Keys, value : Values]
  <2>1. /\ index[ik] \in Ptr /\ keys[index[ik]] # None
        /\ keys[index[ik]] \in Keys \cup {None} /\ values[index[ik]] \in Values \cup {None}
    BY <1>1 DEF LInv, IInv, TypeOK, IndexConsistent
  <2>2. values[index[ik]] # None
    BY <2>1 DEF LInv, IInv, PointersWritten, Written
  <2>. QED
    BY <2>1, <2>2
<1>2. entry[ik] = IF index[ik] = None THEN None
                  ELSE [key |-> keys[index[ik]], value |-> values[index[ik]]]
  BY DEF entry
<1>. QED
  BY <1>1, <1>2, NoneAssumption DEF Abstract!Cached

-----------------------------------------------------------------------------
(* The engine implements its specification *)

(* A key found at place m of the list moves to the front of the recency.   *)
LEMMA PromoteFronts ==
    ASSUME LInv, NEW ps, Chain(ps), NEW ik \in IndexKeys, NEW m \in 1 .. size, ps[m] = index[ik]
    PROVE  /\ Abstract!Promote(ik) = Fronted(recency, size, m)
           /\ Abstract!Admit(ik) = Abstract!Promote(ik)
           /\ KeyList(Fronted(ps, size, m), size, keys) = Fronted(recency, size, m)
<1>1. /\ recency \in Seq(IndexKeys) /\ Len(recency) = size /\ DOMAIN recency = 1 .. size
      /\ \A i \in 1 .. size : /\ recency[i] = IndexOf[keys[ps[i]]]
                              /\ index[recency[i]] = ps[i] /\ index[recency[i]] # None
      /\ \A i, j \in 1 .. size : recency[i] = recency[j] => i = j
      /\ size \in Nat
  BY RecencyFacts, LiveSlots
<1>2. index[ik] # None
  BY <1>1
<1>3. recency[m] = ik
  <2>1. PICK i \in 1 .. size : ps[i] = index[ik] /\ recency[i] = ik
    BY <1>2, RecencyFacts
  <2>2. i = m
    BY <2>1 DEF Chain, Distinct
  <2>. QED
    BY <2>1, <2>2
<1>4. (CHOOSE i \in DOMAIN recency : recency[i] = ik) = m
  BY <1>1, <1>3
<1>5. Abstract!Cached(ik)
  BY <1>2, EntryFacts
<1>6. Abstract!Promote(ik)
      = <<ik>> \o (SubSeq(recency, 1, m - 1) \o SubSeq(recency, m + 1, Len(recency)))
  BY <1>4, <1>5 DEF Abstract!Promote, Abstract!Others
<1>7. <<recency[m]>> \o (SubSeq(recency, 1, m - 1) \o SubSeq(recency, m + 1, Len(recency)))
      = Fronted(recency, Len(recency), m)
  <2>1. m \in 1 .. Len(recency)
    BY <1>1
  <2>. QED
    BY <1>1, <2>1, ConcatFronts, ZenonT(60)
<1>8. Abstract!Promote(ik) = Fronted(recency, size, m)
  BY <1>1, <1>3, <1>6, <1>7
<1>9. Abstract!Admit(ik) = Abstract!Promote(ik)
  BY <1>5 DEF Abstract!Admit
<1>10. KeyList(Fronted(ps, size, m), size, keys) = Fronted(recency, size, m)
  <2>1. \A i \in 1 .. size : IndexOf[keys[Fronted(ps, size, m)[i]]] = Fronted(recency, size, m)[i]
    BY <1>1 DEF Fronted
  <2>2. Fronted(recency, size, m) = [i \in 1 .. size |-> Fronted(recency, size, m)[i]]
    BY DEF Fronted
  <2>. QED
    BY <2>1, <2>2 DEF KeyList
<1>. QED
  BY <1>8, <1>9, <1>10

LEMMA GetImplements ==
    ASSUME LInv, LInv', NEW k \in Keys, Get(k)
    PROVE  Abstract!Get(k)
<1> DEFINE ik == IndexOf[k]
<1>1. PICK ps : Chain(ps)
  BY DEF LInv
<1>2. ik \in IndexKeys
  BY KeyAssumption
<1>3. UNCHANGED <<keys, values, index, size>> /\ popped' = None
  BY DEF Get, slots
<1>4. entry' = entry
  BY <1>3 DEF entry
<1>5. recency' = IF Abstract!Cached(ik) THEN Abstract!Promote(ik) ELSE recency
  <2>1. CASE index[ik] # None
    <3>1. SplayOnTop(index[ik])
      BY <2>1 DEF Get
    <3>2. PICK m \in 1 .. size : ps[m] = index[ik]
      BY <1>1, <1>2, <2>1, RecencyFacts
    <3>3. Chain(Fronted(ps, size, m))'
      BY <1>1, <1>3, <3>1, <3>2, SplayFronts
    <3>4. recency' = KeyList(Fronted(ps, size, m), size, keys)
      <4>1. PICK q : q = Fronted(ps, size, m)
        OBVIOUS
      <4>2. Chain(q)'
        BY <1>3, <3>3, <4>1
      <4>3. recency' = KeyList(q, size', keys')
        BY <4>2, RecencyNext
      <4>. QED
        BY <1>3, <4>1, <4>3
    <3>5. recency' = Abstract!Promote(ik)
      BY <1>1, <1>2, <3>2, <3>4, PromoteFronts
    <3>. QED
      BY <1>2, <2>1, <3>5, EntryFacts
  <2>2. CASE index[ik] = None
    <3>1. UNCHANGED <<head, forward>>
      BY <2>2 DEF Get, lists
    <3>2. recency' = recency
      BY <1>3, <3>1 DEF recency, Nth
    <3>. QED
      BY <1>2, <2>2, <3>2, EntryFacts
  <2>. QED
    BY <2>1, <2>2
<1>. QED
  BY <1>3, <1>4, <1>5 DEF Abstract!Get

(* The recency lists the cached keys, and no others.                       *)
Listed(ik) == \E i \in 1 .. Len(recency) : recency[i] = ik

LEMMA RecencyLists == LInv => \A ik \in IndexKeys : Listed(ik) <=> index[ik] # None
<1> SUFFICES ASSUME LInv, NEW ik \in IndexKeys PROVE Listed(ik) <=> index[ik] # None
  OBVIOUS
<1>1. PICK ps : Chain(ps)
  BY DEF LInv
<1>. QED
  BY <1>1, RecencyFacts DEF Listed

LEMMA RecencyListsNext == (LInv => \A ik \in IndexKeys : Listed(ik) <=> index[ik] # None)'
  BY RecencyLists, PTL

(* What a set does to the entries, once it is known to admit the key.      *)
LEMMA EntryWritten ==
    ASSUME LInv, LInv', NEW ik \in IndexKeys, NEW p \in Ptr, NEW c, NEW v,
           recency' = Abstract!Admit(ik),
           index'[ik] = p, keys'[p] = c, values'[p] = v,
           \A j \in IndexKeys : j # ik /\ index'[j] # None => index'[j] = index[j],
           \A r \in Ptr : r # p => keys'[r] = keys[r] /\ values'[r] = values[r]
    PROVE  entry' = [j \in IndexKeys |->
                        IF j = ik THEN [key |-> c, value |-> v]
                        ELSE IF j \in {Abstract!Admit(ik)[i] : i \in 1 .. Len(Abstract!Admit(ik))}
                        THEN entry[j] ELSE None]
<1> DEFINE stays == {Abstract!Admit(ik)[i] : i \in 1 .. Len(Abstract!Admit(ik))}
<1>1. /\ IndexConsistent' /\ index' \in [IndexKeys -> Ptr \cup {None}]
      /\ None \notin Ptr
  BY NoneNotPtr DEF LInv, IInv, TypeOK
<1>2. \A j \in IndexKeys : j \in stays <=> index'[j] # None
  <2>1. \A j \in IndexKeys : j \in stays <=> \E i \in 1 .. Len(recency') : recency'[i] = j
    OBVIOUS
  <2>2. \A j \in IndexKeys : index'[j] # None <=> \E i \in 1 .. Len(recency') : recency'[i] = j
    BY RecencyListsNext DEF Listed
  <2>. QED
    BY <2>1, <2>2
<1> HIDE DEF stays
<1>3. \A j \in IndexKeys :
          /\ entry'[j] = IF index'[j] = None THEN None
                         ELSE [key |-> keys'[index'[j]], value |-> values'[index'[j]]]
          /\ entry[j] = IF index[j] = None THEN None
                        ELSE [key |-> keys[index[j]], value |-> values[index[j]]]
  BY DEF entry
<1>4. entry'[ik] = [key |-> c, value |-> v]
  BY <1>1, <1>3
<1>5. ASSUME NEW j \in IndexKeys, j # ik
      PROVE  entry'[j] = IF j \in stays THEN entry[j] ELSE None
  <2>1. CASE index'[j] = None
    BY <1>2, <1>3, <2>1
  <2>2. CASE index'[j] # None
    <3>1. index'[j] = index[j] /\ index'[j] \in Ptr /\ j \in stays
      BY <1>1, <1>2, <1>5, <2>2
    <3>2. index'[j] # p
      BY <1>1, <1>5, <2>2 DEF IndexConsistent
    <3>3. keys'[index'[j]] = keys[index[j]] /\ values'[index'[j]] = values[index[j]]
      BY <3>1, <3>2
    <3>4. entry'[j] = [key |-> keys'[index'[j]], value |-> values'[index'[j]]]
      BY <1>3, <2>2
    <3>5. entry[j] = [key |-> keys[index[j]], value |-> values[index[j]]]
      <4>1. index[j] # None
        BY <2>2, <3>1
      <4>. QED
        BY <1>3, <4>1
    <3>6. entry'[j] = entry[j]
      BY <3>3, <3>4, <3>5
    <3>. QED
      BY <3>1, <3>6
  <2>. QED
    BY <2>1, <2>2
<1>6. entry' = [j \in IndexKeys |-> entry'[j]]
  BY DEF entry
<1>. QED
  BY <1>4, <1>5, <1>6 DEF stays

(* A set of a key that is not cached, in a full cache and in one with room.*)
LEMMA InsertAdmits ==
    ASSUME LInv, LInv', Coherent, NEW k \in Keys, NEW v \in Values,
           index[IndexOf[k]] = None, InsertNew(IndexOf[k], k, v)
    PROVE  recency' = Abstract!Admit(IndexOf[k])
<1> DEFINE ik == IndexOf[k]
<1>1. PICK ps : Chain(ps)
  BY DEF LInv
<1>2. PICK n \in Nat : n = size
  BY LiveSlots
<1>3. /\ IF Full
         THEN /\ Chain(Fronted(ps, n, n))' /\ NewPointer = ps[n] /\ size' = n
              /\ n > 0 /\ NewPointer \in Live
         ELSE /\ Chain(Pushed(ps, n, n))' /\ NewPointer = n /\ size' = n + 1
              /\ NewPointer \notin Live
  BY <1>1, <1>2, InsertFronts
<1>4. /\ recency \in Seq(IndexKeys) /\ Len(recency) = n
      /\ \A i \in 1 .. n : recency[i] = IndexOf[keys[ps[i]]]
  BY <1>1, <1>2, RecencyFacts
<1>5. /\ ps \in [1 .. n -> Ptr]
      /\ \A i, j \in 1 .. n : ps[i] = ps[j] => i = j
      /\ \A i \in 1 .. n : ps[i] \in Live
      /\ n \in 0 .. Capacity
  BY <1>1, <1>2, LiveSlots DEF Chain, Distinct
<1>6. ik \in IndexKeys /\ IndexOf[Coerce[k]] = ik /\ ~Abstract!Cached(ik)
  BY KeyAssumption, EntryFacts DEF Coherent
<1>7. Abstract!Promote(ik) = <<ik>> \o recency
  BY <1>6 DEF Abstract!Promote, Abstract!Others
<1>8. Abstract!Admit(ik) = IF Full THEN SubSeq(<<ik>> \o recency, 1, Capacity)
                                   ELSE <<ik>> \o recency
  <2>1. Full <=> Len(recency) = Capacity
    BY <1>2, <1>4, <1>5, CapacityAssumption DEF Full
  <2>. QED
    BY <1>6, <1>7, <2>1 DEF Abstract!Admit
<1>9. \A r \in Ptr : keys'[r] = IF r = NewPointer THEN Coerce[k] ELSE keys[r]
  <2>1. keys' = [keys EXCEPT ![NewPointer] = Coerce[k]]
    BY DEF InsertNew
  <2>2. keys \in [Ptr -> Keys \cup {None}]
    BY DEF LInv, IInv, TypeOK
  <2>. QED
    BY <2>1, <2>2
<1>10. /\ <<ik>> \o recency = Pushed(recency, n, ik)
       /\ n > 0 => SubSeq(<<ik>> \o recency, 1, n)
                   = [i \in 1 .. n |-> IF i = 1 THEN ik ELSE recency[i - 1]]
  BY <1>4, <1>6, ConcatPushes
<1>11. CASE Full
  <2>1. n = Capacity /\ n > 0 /\ NewPointer = ps[n] /\ size' = n
    BY <1>2, <1>3, <1>5, <1>11, CapacityAssumption DEF Full
  <2>2. PICK q : q = Fronted(ps, n, n)
    OBVIOUS
  <2>3. recency' = KeyList(q, size', keys')
    BY <1>3, <1>11, <2>2, RecencyNext
  <2>4. \A i \in 1 .. n : q[i] = IF i = 1 THEN ps[n] ELSE ps[i - 1]
    BY <2>2 DEF Fronted
  <2>5. ASSUME NEW i \in 1 .. n
        PROVE  IndexOf[keys'[q[i]]] = IF i = 1 THEN ik ELSE recency[i - 1]
    <3>1. CASE i = 1
      <4>1. q[i] = ps[n] /\ ps[n] \in Ptr
        BY <1>5, <2>1, <2>4, <3>1
      <4>. QED
        BY <1>6, <1>9, <2>1, <3>1, <4>1
    <3>2. CASE i # 1
      <4>1. i - 1 \in 1 .. n /\ i - 1 # n /\ n \in 1 .. n
        BY <3>2
      <4>2. q[i] = ps[i - 1] /\ ps[i - 1] \in Ptr /\ ps[i - 1] # ps[n]
        BY <1>5, <2>4, <3>2, <4>1
      <4>. QED
        BY <1>4, <1>9, <2>1, <3>2, <4>1, <4>2
    <3>. QED
      BY <3>1, <3>2
  <2>6. KeyList(q, n, keys') = [i \in 1 .. n |-> IF i = 1 THEN ik ELSE recency[i - 1]]
    BY <2>5 DEF KeyList
  <2>. QED
    BY <1>8, <1>10, <1>11, <2>1, <2>3, <2>6
<1>12. CASE ~Full
  <2>1. NewPointer = n /\ size' = n + 1 /\ n \in Ptr /\ NewPointer \notin Live
    BY <1>2, <1>3, <1>5, <1>12, CapacityAssumption DEF Full, Ptr
  <2>2. PICK q : q = Pushed(ps, n, n)
    OBVIOUS
  <2>3. recency' = KeyList(q, size', keys')
    BY <1>3, <1>12, <2>2, RecencyNext
  <2>4. \A i \in 1 .. n + 1 : q[i] = IF i = 1 THEN n ELSE ps[i - 1]
    BY <2>2 DEF Pushed
  <2>5. ASSUME NEW i \in 1 .. n + 1
        PROVE  IndexOf[keys'[q[i]]] = IF i = 1 THEN ik ELSE recency[i - 1]
    <3>1. CASE i = 1
      BY <1>6, <1>9, <2>1, <2>4, <3>1
    <3>2. CASE i # 1
      <4>1. i - 1 \in 1 .. n
        BY <3>2
      <4>2. q[i] = ps[i - 1] /\ ps[i - 1] \in Ptr /\ ps[i - 1] # NewPointer
        BY <1>5, <2>1, <2>4, <3>2, <4>1
      <4>. QED
        BY <1>4, <1>9, <3>2, <4>1, <4>2
    <3>. QED
      BY <3>1, <3>2
  <2>6. KeyList(q, n + 1, keys') = Pushed(recency, n, ik)
    BY <2>5 DEF KeyList, Pushed
  <2>. QED
    BY <1>8, <1>10, <1>12, <2>1, <2>3, <2>6
<1>. QED
  BY <1>11, <1>12

(* A set does to the recency and to the entries what the specification of  *)
(* the cache says, whether it finds its key, has room for it or evicts.    *)
LEMMA WriteImplements ==
    ASSUME LInv, LInv', Coherent, NEW k \in Keys, NEW v \in Values, Write(k, v)
    PROVE  Abstract!Write(k, v)
<1> DEFINE ik == IndexOf[k]
           stays == {Abstract!Admit(ik)[i] : i \in 1 .. Len(Abstract!Admit(ik))}
           stored == IF Abstract!Cached(ik) THEN entry[ik].key ELSE Coerce[k]
<1>1. PICK ps : Chain(ps)
  BY DEF LInv
<1>2. /\ ik \in IndexKeys /\ None \notin Ptr
      /\ values \in [Ptr -> Values \cup {None}] /\ keys \in [Ptr -> Keys \cup {None}]
      /\ index \in [IndexKeys -> Ptr \cup {None}]
  BY KeyAssumption, NoneNotPtr DEF LInv, IInv, TypeOK
<1> SUFFICES /\ recency' = Abstract!Admit(ik)
             /\ entry' = [j \in IndexKeys |->
                             IF j = ik THEN [key |-> stored, value |-> v]
                             ELSE IF j \in stays THEN entry[j] ELSE None]
  BY DEF Abstract!Write
<1>3. CASE index[ik] # None
  <2>1. /\ SplayOnTop(index[ik]) /\ UNCHANGED <<keys, index, size>>
        /\ values' = [values EXCEPT ![index[ik]] = v]
    BY <1>3 DEF Write, Overwrite
  <2>2. PICK m \in 1 .. size : ps[m] = index[ik]
    BY <1>1, <1>2, <1>3, LiveSlots DEF Chain
  <2>3. PICK q : q = Fronted(ps, size, m)
    OBVIOUS
  <2>4. Chain(q)'
    <3>1. Chain(Fronted(ps, size, m))'
      BY <1>1, <2>1, <2>2, SplayFronts
    <3>. QED
      BY <2>1, <2>3, <3>1
  <2>5. recency' = KeyList(q, size, keys)
    BY <2>1, <2>4, RecencyNext
  <2>6. recency' = Abstract!Admit(ik)
    BY <1>1, <1>2, <2>2, <2>3, <2>5, PromoteFronts
  <2>7. stored = keys[index[ik]]
    BY <1>2, <1>3, EntryFacts
  <2>8. PICK p \in Ptr : p = index[ik]
    BY <1>2, <1>3
  <2>9. /\ index'[ik] = p /\ keys'[p] = keys[p] /\ values'[p] = v
        /\ \A j \in IndexKeys : j # ik /\ index'[j] # None => index'[j] = index[j]
        /\ \A r \in Ptr : r # p => keys'[r] = keys[r] /\ values'[r] = values[r]
    BY <1>2, <2>1, <2>8
  <2>10. entry' = [j \in IndexKeys |->
                      IF j = ik THEN [key |-> keys[p], value |-> v]
                      ELSE IF j \in stays THEN entry[j] ELSE None]
    BY <1>2, <2>6, <2>9, EntryWritten
  <2>. QED
    BY <2>6, <2>7, <2>8, <2>10
<1>4. CASE index[ik] = None
  <2>1. InsertNew(ik, k, v)
    BY <1>4 DEF Write
  <2>2. recency' = Abstract!Admit(ik)
    BY <1>4, <2>1, InsertAdmits
  <2>3. stored = Coerce[k]
    BY <1>2, <1>4, EntryFacts
  <2>4. PICK p : p = NewPointer
    OBVIOUS
  <2>5. p \in Ptr
    BY <1>4, <2>1, <2>4, NewPointerLive DEF LInv, IInv
  <2>6. /\ index' = [(IF Full THEN [index EXCEPT ![IndexOf[keys[p]]] = None] ELSE index)
                     EXCEPT ![ik] = p]
        /\ keys' = [keys EXCEPT ![p] = Coerce[k]]
        /\ values' = [values EXCEPT ![p] = v]
    BY <2>1, <2>4 DEF InsertNew
  <2>7. /\ index'[ik] = p
        /\ \A j \in IndexKeys : j # ik /\ index'[j] # None => index'[j] = index[j]
    <3>1. CASE Full
      BY <1>2, <2>6, <3>1
    <3>2. CASE ~Full
      BY <1>2, <2>6, <3>2
    <3>. QED
      BY <3>1, <3>2
  <2>8. /\ keys'[p] = Coerce[k] /\ values'[p] = v
        /\ \A r \in Ptr : r # p => keys'[r] = keys[r] /\ values'[r] = values[r]
    BY <1>2, <2>5, <2>6
  <2>9. entry' = [j \in IndexKeys |->
                      IF j = ik THEN [key |-> Coerce[k], value |-> v]
                      ELSE IF j \in stays THEN entry[j] ELSE None]
    BY <1>2, <2>2, <2>5, <2>7, <2>8, EntryWritten
  <2>. QED
    BY <2>2, <2>3, <2>9
<1>. QED
  BY <1>3, <1>4

LEMMA SetPopImplements ==
    ASSUME LInv, LInv', Coherent, NEW k \in Keys, NEW v \in Values, SetPop(k, v)
    PROVE  Abstract!SetPop(k, v)
<1> DEFINE ik == IndexOf[k]
           last == recency[Len(recency)]
<1>1. PICK ps : Chain(ps)
  BY DEF LInv
<1>2. /\ ik \in IndexKeys /\ size \in 0 .. Capacity /\ Capacity \in Nat \ {0}
      /\ Len(recency) = size
  BY <1>1, KeyAssumption, CapacityAssumption, LiveSlots, RecencyFacts
<1>3. Abstract!Write(k, v)
  BY WriteImplements DEF SetPop
<1>4. popped' = IF index[ik] # None
                THEN [evicted |-> FALSE, key |-> Coerce[k], value |-> values[index[ik]]]
                ELSE IF Full
                THEN [evicted |-> TRUE, key |-> keys[tail], value |-> values[tail]]
                ELSE None
  BY DEF SetPop
<1>5. CASE index[ik] # None
  <2>1. Abstract!Cached(ik) /\ entry[ik].value = values[index[ik]]
    BY <1>2, <1>5, EntryFacts
  <2>. QED
    BY <1>3, <1>4, <1>5, <2>1 DEF Abstract!SetPop
<1>6. CASE index[ik] = None
  <2>1. ~Abstract!Cached(ik)
    BY <1>2, <1>6, EntryFacts
  <2>2. Full <=> Len(recency) = Capacity
    BY <1>2 DEF Full
  <2>3. ASSUME Full
        PROVE  entry[last].key = keys[tail] /\ entry[last].value = values[tail]
    <3>1. size \in 1 .. size /\ tail = ps[size]
      BY <1>1, <1>2, <2>3 DEF Full, Chain
    <3>2. recency[size] \in IndexKeys /\ index[recency[size]] = ps[size]
          /\ index[recency[size]] # None
      BY <1>1, <3>1, RecencyFacts
    <3>. QED
      BY <1>2, <3>1, <3>2, EntryFacts, ZenonT(60)
  <2>4. popped' = IF Len(recency) = Capacity
                  THEN [evicted |-> TRUE, key |-> entry[last].key, value |-> entry[last].value]
                  ELSE None
    BY <1>4, <1>6, <2>2, <2>3
  <2>. QED
    BY <1>3, <2>1, <2>4 DEF Abstract!SetPop
<1>. QED
  BY <1>5, <1>6

LEMMA ClearImplements ==
    ASSUME Clear
    PROVE  Abstract!Clear
<1>1. size' = 0 /\ index' = [ik \in IndexKeys |-> None] /\ popped' = None
  BY DEF Clear
<1>2. recency' = <<>>
  BY <1>1 DEF recency
<1>3. entry' = [ik \in IndexKeys |-> None]
  BY <1>1 DEF entry
<1>. QED
  BY <1>1, <1>2, <1>3 DEF Abstract!Clear

LEMMA WalkImplements ==
    ASSUME NEW w \in Walks, OpenWalk(w) \/ AdvanceWalk(w)
    PROVE  UNCHANGED <<recency, entry, popped>>
<1>1. UNCHANGED <<forward, head, keys, values, index, size, popped>>
  BY DEF OpenWalk, AdvanceWalk, lists, slots
<1>2. recency' = recency /\ entry' = entry
  BY <1>1 DEF recency, entry, Nth
<1>. QED
  BY <1>1, <1>2

LEMMA NextImplements ==
    ASSUME LInv, LInv', Coherent, [PlainNext]_vars
    PROVE  [Abstract!Next]_<<recency, entry, popped>>
<1>1. ASSUME NEW k \in Keys, NEW v \in Values, Set(k, v) PROVE Abstract!Next
  BY <1>1, WriteImplements DEF Set, Abstract!Set, Abstract!Next
<1>2. ASSUME NEW k \in Keys, NEW v \in Values, SetPop(k, v) PROVE Abstract!Next
  BY <1>2, SetPopImplements DEF Abstract!Next
<1>3. ASSUME NEW k \in Keys, Get(k) PROVE Abstract!Next
  BY <1>3, GetImplements DEF Abstract!Next
<1>4. CASE Clear
  BY <1>4, ClearImplements DEF Abstract!Next
<1>5. ASSUME NEW w \in Walks, OpenWalk(w) \/ AdvanceWalk(w)
      PROVE  UNCHANGED <<recency, entry, popped>>
  BY <1>5, WalkImplements
<1>6. CASE UNCHANGED vars
  <2>1. recency' = recency /\ entry' = entry /\ popped' = popped
    BY <1>6 DEF vars, recency, entry, Nth
  <2>. QED
    BY <2>1
<1>. QED
  BY <1>1, <1>2, <1>3, <1>4, <1>5, <1>6 DEF PlainNext

LEMMA InitImplements == Init => Abstract!Init
<1> SUFFICES ASSUME Init PROVE Abstract!Init
  OBVIOUS
<1>1. size = 0 /\ index = [ik \in IndexKeys |-> None] /\ popped = None
  BY DEF Init
<1>2. recency = <<>>
  BY <1>1 DEF recency
<1>3. entry = [ik \in IndexKeys |-> None]
  BY <1>1 DEF entry
<1>. QED
  BY <1>1, <1>2, <1>3 DEF Abstract!Init

LEMMA NoDeletions == ~WithDelete /\ [Next]_vars => [PlainNext]_vars
  BY DEF Next, PlainNext, Delete

LEMMA InvariantHolds == Coherent /\ ~WithDelete => (Spec => []LInv)
<1> SUFFICES ASSUME Coherent, ~WithDelete PROVE Spec => []LInv
  OBVIOUS
<1>1. Init => LInv
  BY InitLInv
<1>2. LInv /\ [Next]_vars => LInv'
  BY NoDeletions, PlainNextPreserves
<1>. QED
  BY <1>1, <1>2, PTL DEF Spec

(* The list by its definition, in every state of the invariant.            *)
LEMMA ListIsRecencyList == LInv => RecencyList
<1> SUFFICES ASSUME LInv, size > 0 PROVE RecencyList
  BY DEF RecencyList
<1>1. PICK ps : Chain(ps)
  BY DEF LInv
<1>2. /\ size \in 1 .. Capacity /\ size \in Nat
      /\ Distinct(ps, size) /\ Linked(ps, size, forward, backward) /\ head = ps[1]
      /\ \A i \in 1 .. size : ps[i] \in Live
      /\ \A p \in Live : \E i \in 1 .. size : ps[i] = p
      /\ tail = ps[size]
  BY <1>1, LiveSlots DEF Chain
<1>3. \A i \in 1 .. size : Nth[i - 1] = ps[i]
  BY <1>2, NthOfLinked, NthByDefinition
<1>4. {Nth[i] : i \in 0 .. size - 1} = Live
  <2>1. ASSUME NEW i \in 0 .. size - 1 PROVE Nth[i] \in Live
    <3>1. i + 1 \in 1 .. size /\ (i + 1) - 1 = i
      BY <1>2
    <3>. QED
      BY <1>2, <1>3, <3>1
  <2>2. ASSUME NEW p \in Live PROVE \E i \in 0 .. size - 1 : Nth[i] = p
    <3>1. PICK i \in 1 .. size : ps[i] = p
      BY <1>2
    <3>2. i - 1 \in 0 .. size - 1
      BY <1>2
    <3>. QED
      BY <1>3, <3>1, <3>2
  <2>. QED
    BY <2>1, <2>2
<1>5. Nth[size - 1] = tail
  BY <1>2, <1>3
<1>6. ASSUME NEW i \in 1 .. size - 1 PROVE backward[Nth[i]] = Nth[i - 1]
  <2>1. i \in 1 .. size /\ i + 1 \in 1 .. size /\ (i + 1) - 1 = i
    BY <1>2
  <2>2. Nth[i - 1] = ps[i] /\ Nth[i] = ps[i + 1]
    BY <1>3, <2>1
  <2>. QED
    BY <1>2, <2>2 DEF Linked
<1>. QED
  BY <1>4, <1>5, <1>6 DEF RecencyList

-----------------------------------------------------------------------------
(* The cache without delete *)

(* Following forward from the head, every live slot is met once and the    *)
(* last one is the tail that an eviction takes; backward is the way back.  *)
THEOREM ListCorrect == Coherent /\ ~WithDelete => (Spec => []RecencyList)
<1>1. LInv => RecencyList
  BY ListIsRecencyList
<1>. QED
  BY <1>1, InvariantHolds, PTL

(* An iterator or forEach opened since the last clear reports entries that *)
(* are cached when it reports them, whatever its callback sets, reads or   *)
(* evicts meanwhile.                                                       *)
THEOREM WalksReportCached ==
    Coherent /\ ~WithDelete => (Spec => []FreshWalksReportCached)
<1>1. LInv => FreshWalksReportCached
  BY DEF LInv
<1>. QED
  BY <1>1, InvariantHolds, PTL

(* The arrays of pointers implement the cache of LruSpec: the same keys in *)
(* the same order of recency, the same stored pairs, the same victims.     *)
THEOREM EngineImplements == Coherent /\ ~WithDelete => (Spec => ImplementsLruSpec)
<1> SUFFICES ASSUME Coherent, ~WithDelete PROVE Spec => ImplementsLruSpec
  OBVIOUS
<1>1. Spec => []LInv
  BY InvariantHolds
<1>2. Init => Abstract!Init
  BY InitImplements
<1>3. LInv /\ LInv' /\ [Next]_vars => [Abstract!Next]_<<recency, entry, popped>>
  BY NoDeletions, NextImplements
<1>. QED
  BY <1>1, <1>2, <1>3, PTL DEF Spec, ImplementsLruSpec, Abstract!Spec, Abstract!specVars

-----------------------------------------------------------------------------
(* Side by side with the specification *)

(* From equal lists and entries, one call ends in equal ones.              *)
LEMMA OneAnswer ==
    ASSUME AgreesWithPromise, NEW k, NEW v
    PROVE  /\ Abstract!Set(k, v) /\ Promise!Set(k, v) => AgreesWithPromise'
           /\ Abstract!SetPop(k, v) /\ Promise!SetPop(k, v) => AgreesWithPromise'
           /\ Abstract!Get(k) /\ Promise!Get(k) => AgreesWithPromise'
           /\ Abstract!Clear /\ Promise!Clear => AgreesWithPromise'
<1>1. recency = order /\ entry = cached /\ popped = report
  BY DEF AgreesWithPromise
<1>2. \A ik : /\ Abstract!Cached(ik) <=> Promise!Cached(ik)
              /\ Abstract!Others(ik) = Promise!Others(ik)
  BY <1>1 DEF Abstract!Cached, Promise!Cached, Abstract!Others, Promise!Others
<1>3. \A ik : Abstract!Promote(ik) = Promise!Promote(ik)
  BY <1>2 DEF Abstract!Promote, Promise!Promote
<1>4. \A ik : Abstract!Admit(ik) = Promise!Admit(ik)
  BY <1>1, <1>2, <1>3 DEF Abstract!Admit, Promise!Admit
<1>5. Abstract!Write(k, v) /\ Promise!Write(k, v) => recency' = order' /\ entry' = cached'
  BY <1>1, <1>2, <1>4 DEF Abstract!Write, Promise!Write
<1>6. Abstract!Set(k, v) /\ Promise!Set(k, v) => AgreesWithPromise'
  BY <1>5 DEF Abstract!Set, Promise!Set, AgreesWithPromise
<1>7. Abstract!SetPop(k, v) /\ Promise!SetPop(k, v) => AgreesWithPromise'
  BY <1>1, <1>2, <1>5 DEF Abstract!SetPop, Promise!SetPop, AgreesWithPromise
<1>8. Abstract!Get(k) /\ Promise!Get(k) => AgreesWithPromise'
  BY <1>1, <1>2, <1>3 DEF Abstract!Get, Promise!Get, AgreesWithPromise
<1>9. Abstract!Clear /\ Promise!Clear => AgreesWithPromise'
  BY DEF Abstract!Clear, Promise!Clear, AgreesWithPromise
<1>. QED
  BY <1>6, <1>7, <1>8, <1>9

(* Run side by side, the engine and its specification give one answer to   *)
(* every call: the recency list promotes what get and set promote, a set   *)
(* evicts what an LRU cache evicts, and setpop reports it.                 *)
THEOREM EngineAgrees == Coherent => (LockstepSpec => []AgreesWithPromise)
<1> SUFFICES ASSUME Coherent PROVE LockstepSpec => []AgreesWithPromise
  OBVIOUS
<1>1. LockstepInit => LInv /\ AgreesWithPromise
  BY InitLInv, InitImplements
  DEF LockstepInit, AgreesWithPromise, Abstract!Init, Promise!Init
<1>2. ASSUME LInv, [LockstepNext]_LockstepVars PROVE LInv'
  <2>1. [PlainNext]_vars
    BY <1>2 DEF LockstepNext, LockstepVars, PlainNext
  <2>. QED
    BY <1>2, <2>1, PlainNextPreserves
<1>3. ASSUME LInv, LInv', AgreesWithPromise, [LockstepNext]_LockstepVars
      PROVE  AgreesWithPromise'
  <2>1. ASSUME NEW k \in Keys, NEW v \in Values, Set(k, v), Promise!Set(k, v)
        PROVE  AgreesWithPromise'
    <3>1. Abstract!Set(k, v)
      BY <1>3, <2>1, WriteImplements DEF Set, Abstract!Set
    <3>. QED
      BY <1>3, <2>1, <3>1, OneAnswer
  <2>2. ASSUME NEW k \in Keys, NEW v \in Values, SetPop(k, v), Promise!SetPop(k, v)
        PROVE  AgreesWithPromise'
    BY <1>3, <2>2, SetPopImplements, OneAnswer
  <2>3. ASSUME NEW k \in Keys, Get(k), Promise!Get(k) PROVE AgreesWithPromise'
    BY <1>3, <2>3, GetImplements, OneAnswer
  <2>4. CASE Clear /\ Promise!Clear
    BY <1>3, <2>4, ClearImplements, OneAnswer
  <2>5. ASSUME NEW w \in Walks, OpenWalk(w) \/ AdvanceWalk(w),
               UNCHANGED <<order, cached, report>>
        PROVE  AgreesWithPromise'
    BY <1>3, <2>5, WalkImplements DEF AgreesWithPromise
  <2>6. CASE UNCHANGED LockstepVars
    <3>1. recency' = recency /\ entry' = entry
      BY <2>6 DEF LockstepVars, vars, recency, entry, Nth
    <3>. QED
      BY <1>3, <2>6, <3>1 DEF LockstepVars, vars, AgreesWithPromise
  <2>. QED
    BY <1>3, <2>1, <2>2, <2>3, <2>4, <2>5, <2>6 DEF LockstepNext
<1>. QED
  BY <1>1, <1>2, <1>3, PTL DEF LockstepSpec
=============================================================================
