------------------------------ MODULE LruCache ------------------------------
(***************************************************************************)
(* structures/lru_cache.rs: a doubly linked recency list over fixed arrays *)
(* of pointers, a hash index from keys to pointers, and, in the two        *)
(* with-delete variants, a stack of freed pointers.  One engine serves the *)
(* four upstream files; WithDelete says whether delete and remove exist.   *)
(*                                                                         *)
(* The arrays are never cleared: forward of the tail, backward of the head *)
(* and the slots of deleted entries keep whatever was last written there.  *)
(* Walks (keys/values/entries iterators and forEach) hold a pointer and a  *)
(* count of their own and read the arrays live, whatever ran in between.   *)
(***************************************************************************)
EXTENDS Integers, FiniteSets, TLC

CONSTANTS
    Capacity,   \* number of slots
    Keys,       \* raw keys a caller may use
    IndexKeys,  \* what the index is keyed by
    IndexOf,    \* index key of a raw key (property string, or the key itself)
    Coerce,     \* what the Keys array class stores for a raw key
    Values,
    WithDelete, \* TRUE for the -with-delete pair
    Walks,      \* iterators and forEach loops that may be open at once
    MaxUsize,   \* the largest usize; the size wraps to it below zero
    None

ASSUME CapacityAssumption == Capacity \in Nat \ {0} /\ MaxUsize \in Nat /\ MaxUsize > Capacity
ASSUME KeyAssumption == /\ IndexOf \in [Keys -> IndexKeys]
                        /\ Coerce \in [Keys -> Keys]
                        /\ WithDelete \in BOOLEAN
ASSUME NoneAssumption == /\ None \notin Keys
                         /\ None \notin Values
                         /\ None \notin 0 .. Capacity
                         /\ None \notin [key : Keys, value : Values]

(* A Map-backed cache without array classes stores and indexes a key as it *)
(* is given.                                                               *)
Identity == [k \in Keys |-> k]

(* An array class that narrows, as a Uint8Array stores 300 as 44: one key  *)
(* is stored as another.                                                   *)
Narrowing ==
    CHOOSE f \in [Keys -> Keys] :
        \E k, n \in Keys : k # n /\ f = [Identity EXCEPT ![k] = n]

(* Keys, and values, are interchangeable unless a key narrows.             *)
Symmetry == Permutations(Keys) \cup Permutations(Values)

VARIABLES
    forward, backward, \* the recency list, towards the tail and the head
    holes, holes_len,  \* stack of freed pointers
    keys, values,      \* the stored pairs
    index,             \* index key -> pointer
    size, head, tail,
    popped,            \* what the last call reported, if it was setpop
    walk               \* the open walks

lists == <<forward, backward, head, tail>>
slots == <<keys, values>>
free == <<holes, holes_len>>
vars == <<forward, backward, holes, holes_len, keys, values, index, size,
          head, tail, popped, walk>>

Ptr == 0 .. Capacity - 1

Live == {index[ik] : ik \in {j \in IndexKeys : index[j] # None}}
Holes == {holes[i] : i \in 0 .. holes_len - 1}

(* The index key under which an entry is evicted agrees with the one it    *)
(* was inserted under.  A narrowing Keys class breaks this.                *)
Coherent == \A k \in Keys : IndexOf[Coerce[k]] = IndexOf[k]

Init ==
    /\ forward = [p \in Ptr |-> 0]
    /\ backward = [p \in Ptr |-> 0]
    /\ holes = [p \in Ptr |-> 0]
    /\ holes_len = 0
    /\ keys = [p \in Ptr |-> None]
    /\ values = [p \in Ptr |-> None]
    /\ index = [ik \in IndexKeys |-> None]
    /\ size = 0 /\ head = 0 /\ tail = 0
    /\ popped = None
    /\ walk = [w \in Walks |-> [pointer |-> 0, remaining |-> 0, fresh |-> TRUE]]

-----------------------------------------------------------------------------
(* Operations *)

(* Mutant: the successor of a promoted entry keeps its old predecessor.    *)
SplayOneWay(p) ==
    IF p = head
    THEN UNCHANGED lists
    ELSE LET previous == backward[p]
             next == forward[p]
         IN  /\ tail' = IF p = tail THEN previous ELSE tail
             /\ backward' = [backward EXCEPT ![head] = p]
             /\ forward' = [forward EXCEPT ![previous] = next, ![p] = head]
             /\ head' = p

(* splay_on_top: move an entry to the front of the list.                   *)
SplayOnTop(p) ==
    IF p = head
    THEN UNCHANGED lists
    ELSE LET previous == backward[p]
             next == forward[p]
             relinked == IF p = tail THEN backward
                         ELSE [backward EXCEPT ![next] = previous]
         IN  /\ tail' = IF p = tail THEN previous ELSE tail
             /\ backward' = [relinked EXCEPT ![head] = p]
             /\ forward' = [forward EXCEPT ![previous] = next, ![p] = head]
             /\ head' = p

Full == size >= Capacity

(* Mutant: slots are numbered from one.                                    *)
NewPointerFromOne ==
    IF Full THEN tail
    ELSE IF holes_len > 0 THEN holes[holes_len - 1] ELSE size + 1

(* Mutant: the hole under the top one is taken.                            *)
NewPointerUnderTop ==
    IF Full THEN tail
    ELSE IF holes_len > 1 THEN holes[holes_len - 2]
    ELSE IF holes_len > 0 THEN holes[0] ELSE size

(* The pointer a new key gets: a hole, the next unused slot, or the tail's.*)
NewPointer ==
    IF Full THEN tail
    ELSE IF holes_len > 0 THEN holes[holes_len - 1] ELSE size

(* Mutant: an eviction leaves the evicted key in the index.                *)
InsertKeepsEvicted(ik, k, v) ==
    LET p == NewPointer
    IN  /\ size' = IF Full THEN size ELSE size + 1
        /\ holes_len' = IF ~Full /\ holes_len > 0 THEN holes_len - 1 ELSE holes_len
        /\ index' = [index EXCEPT ![ik] = p]
        /\ keys' = [keys EXCEPT ![p] = Coerce[k]]
        /\ values' = [values EXCEPT ![p] = v]
        /\ forward' = [forward EXCEPT ![p] = head]
        /\ backward' = [backward EXCEPT ![head] = p]
        /\ tail' = IF Full THEN backward[tail] ELSE tail
        /\ head' = p
        /\ UNCHANGED holes

(* insert_new: acquire a pointer, evicting the tail of a full cache.  The  *)
(* evicted entry leaves the index under the key re-derived from its slot.  *)
InsertNew(ik, k, v) ==
    LET p == NewPointer
        evicted == IndexOf[keys[p]]
        kept == IF Full THEN [index EXCEPT ![evicted] = None] ELSE index
    IN  /\ size' = IF Full THEN size ELSE size + 1
        /\ holes_len' = IF ~Full /\ holes_len > 0 THEN holes_len - 1 ELSE holes_len
        /\ index' = [kept EXCEPT ![ik] = p]
        /\ keys' = [keys EXCEPT ![p] = Coerce[k]]
        /\ values' = [values EXCEPT ![p] = v]
        /\ forward' = [forward EXCEPT ![p] = head]
        /\ backward' = [backward EXCEPT ![head] = p]
        /\ tail' = IF Full THEN backward[tail] ELSE tail
        /\ head' = p
        /\ UNCHANGED holes

Overwrite(p, v) ==
    /\ SplayOnTop(p)
    /\ values' = [values EXCEPT ![p] = v]
    /\ UNCHANGED <<keys, index, size, free>>

Write(k, v) ==
    LET ik == IndexOf[k]
    IN  IF index[ik] # None THEN Overwrite(index[ik], v)
                            ELSE InsertNew(ik, k, v)

Set(k, v) == Write(k, v) /\ popped' = None /\ UNCHANGED walk

SetPop(k, v) ==
    LET p == index[IndexOf[k]]
    IN  /\ Write(k, v)
        /\ popped' = IF p # None
                     THEN [evicted |-> FALSE, key |-> Coerce[k], value |-> values[p]]
                     ELSE IF Full
                     THEN [evicted |-> TRUE, key |-> keys[tail], value |-> values[tail]]
                     ELSE None
        /\ UNCHANGED walk

(* Mutant: a read that promotes nothing.                                   *)
GetLikePeek(k) ==
    popped' = None /\ UNCHANGED <<lists, slots, free, index, size, walk>>

Get(k) ==
    LET p == index[IndexOf[k]]
    IN  /\ IF p # None THEN SplayOnTop(p) ELSE UNCHANGED lists
        /\ popped' = None
        /\ UNCHANGED <<slots, free, index, size, walk>>

(* A walk is fresh until an entry it may still report leaves the cache for *)
(* good.  A history of the run, not a field of the code's walk.            *)
Outdate == walk' = [w \in Walks |->
                       [walk[w] EXCEPT !.fresh = @ /\ walk[w].remaining = 0]]

(* Mutant: clear forgets the size.                                         *)
ClearKeepsSize ==
    /\ head' = 0 /\ tail' = 0 /\ holes_len' = 0
    /\ index' = [ik \in IndexKeys |-> None]
    /\ popped' = None
    /\ Outdate
    /\ UNCHANGED <<forward, backward, holes, slots, size>>

Clear ==
    /\ size' = 0 /\ head' = 0 /\ tail' = 0 /\ holes_len' = 0
    /\ index' = [ik \in IndexKeys |-> None]
    /\ popped' = None
    /\ Outdate
    /\ UNCHANGED <<forward, backward, holes, slots>>

(* unlink: splice the pointer out and push it on the holes.  The           *)
(* neighbours are read from the arrays even at the ends of the list, where *)
(* they are left over from earlier operations.                             *)
Unlink(p) ==
    IF size = 1
    THEN /\ size' = 0 /\ head' = 0 /\ tail' = 0 /\ holes_len' = 0
         /\ UNCHANGED <<forward, backward, holes>>
    ELSE LET previous == backward[p]
             next == forward[p]
         IN  /\ head' = IF head = p THEN next ELSE head
             /\ tail' = IF tail = p THEN previous ELSE tail
             /\ forward' = [forward EXCEPT ![previous] = next]
             /\ backward' = [backward EXCEPT ![next] = previous]
             /\ size' = IF size = 0 THEN MaxUsize ELSE size - 1
             /\ holes' = [holes EXCEPT ![holes_len] = p]
             /\ holes_len' = holes_len + 1

(* Mutant: a deletion clears the slot, as unlink once did.                 *)
DeleteClearsSlot(k) ==
    /\ WithDelete
    /\ index[IndexOf[k]] # None
    /\ index' = [index EXCEPT ![IndexOf[k]] = None]
    /\ Unlink(index[IndexOf[k]])
    /\ keys' = [keys EXCEPT ![index[IndexOf[k]]] = None]
    /\ values' = [values EXCEPT ![index[IndexOf[k]]] = None]
    /\ popped' = None
    /\ Outdate

(* delete and remove differ only in what they return.                      *)
Delete(k) ==
    /\ WithDelete
    /\ index[IndexOf[k]] # None
    /\ index' = [index EXCEPT ![IndexOf[k]] = None]
    /\ Unlink(index[IndexOf[k]])
    /\ popped' = None
    /\ Outdate
    /\ UNCHANGED slots

-----------------------------------------------------------------------------
(* Walks *)

OpenWalk(w) ==
    /\ walk[w].remaining = 0
    /\ walk' = [walk EXCEPT ![w] = [pointer |-> head, remaining |-> size, fresh |-> TRUE]]
    /\ UNCHANGED <<lists, slots, free, index, size, popped>>

(* An iterator reports the slot at its pointer and moves on at once; a     *)
(* forEach stays on the slot it reported while its callback runs and moves *)
(* when that returns.  Either way the pointer follows forward as it is now.*)
AdvanceWalk(w) ==
    /\ walk[w].remaining > 0
    /\ walk' = [walk EXCEPT ![w].pointer = forward[@],
                            ![w].remaining = @ - 1]
    /\ UNCHANGED <<lists, slots, free, index, size, popped>>

Next ==
    \/ \E k \in Keys, v \in Values : Set(k, v) \/ SetPop(k, v)
    \/ \E k \in Keys : Get(k) \/ Delete(k)
    \/ Clear
    \/ \E w \in Walks : OpenWalk(w) \/ AdvanceWalk(w)

Spec == Init /\ [][Next]_vars

-----------------------------------------------------------------------------
(* Properties *)

TypeOK ==
    /\ forward \in [Ptr -> Ptr]
    /\ backward \in [Ptr -> Ptr]
    /\ holes \in [Ptr -> Ptr]
    /\ holes_len \in 0 .. Capacity
    /\ keys \in [Ptr -> Keys \cup {None}]
    /\ values \in [Ptr -> Values \cup {None}]
    /\ index \in [IndexKeys -> Ptr \cup {None}]
    /\ size \in 0 .. Capacity
    /\ head \in Ptr
    /\ tail \in Ptr
    /\ popped \in {None} \cup [evicted : BOOLEAN, key : Keys, value : Values]
    /\ walk \in [Walks -> [pointer : Ptr, remaining : 0 .. Capacity, fresh : BOOLEAN]]

(* The slot a key is indexed to holds an entry of that key, so no two keys *)
(* share a slot and an eviction takes the right key out of the index.      *)
IndexConsistent ==
    \A ik \in IndexKeys : index[ik] # None =>
        /\ keys[index[ik]] # None
        /\ IndexOf[keys[index[ik]]] = ik

(* Every slot handed out so far is either indexed or waiting in the holes, *)
(* never both and never twice: what insert_new relies on when it pops a    *)
(* hole, takes the next unused slot, or finds the cache full.              *)
PointersPartitioned ==
    /\ Live \cap Holes = {}
    /\ Live \cup Holes = 0 .. size + holes_len - 1
    /\ \A i, j \in 0 .. holes_len - 1 : holes[i] = holes[j] => i = j
    /\ size + holes_len <= Capacity

(* len(): the size is the number of live entries ("nothing in this family  *)
(* diverges the two").                                                     *)
SizeIsLiveCount == size = Cardinality(Live)

(* The capacity is the fixed maximum entry count, whatever the Keys class  *)
(* makes of the keys.                                                      *)
SizeWithinCapacity == size <= Capacity

(* The expect in slot and in current cannot fail: whatever ran since a     *)
(* walk was opened, the slot it reads next has been written.               *)
WalksNeverPanic ==
    \A w \in Walks : walk[w].remaining > 0 =>
        /\ keys[walk[w].pointer] # None
        /\ values[walk[w].pointer] # None

(* Without deletions a walk opened since the last clear only ever reports  *)
(* entries that are cached at the moment they are reported, whatever was   *)
(* set, promoted or evicted under it.                                      *)
FreshWalksReportCached ==
    \A w \in Walks : walk[w].fresh /\ walk[w].remaining > 0 =>
        walk[w].pointer \in Live

(* The i-th pointer of the list, counted from the head.                    *)
Nth[i \in 0 .. Capacity] == IF i = 0 THEN head ELSE forward[Nth[i - 1]]

(* Following forward from the head visits every live pointer once and ends *)
(* at the tail, and backward is the way back.                              *)
RecencyList ==
    size > 0 =>
        /\ {Nth[i] : i \in 0 .. size - 1} = Live
        /\ Nth[size - 1] = tail
        /\ \A i \in 1 .. size - 1 : backward[Nth[i]] = Nth[i - 1]

recency == [i \in 1 .. size |-> IndexOf[keys[Nth[i - 1]]]]
entry == [ik \in IndexKeys |->
            IF index[ik] = None THEN None
            ELSE [key |-> keys[index[ik]], value |-> values[index[ik]]]]

Abstract == INSTANCE LruSpec

(* The engine without delete is an LRU cache: same cached keys in the same *)
(* order of recency, same stored pairs, same reports from setpop.          *)
ImplementsLruSpec == Abstract!Spec
=============================================================================
