----------------------------- MODULE OrderedMap -----------------------------
(***************************************************************************)
(* map/mod.rs: the Map under every map-backed structure of the crate.      *)
(* Entries live in a vector of slots, a deleted one leaves a tombstone,    *)
(* and a vector that is mostly tombstones is compacted.  Slots carry ids   *)
(* that are handed out in order and never again, so a cursor holds the id  *)
(* it wants next, with a guess of where it is: no mutation tells it        *)
(* anything.                                                               *)
(*                                                                         *)
(* Positions in slots count from 1; the cursor's hint is the code's, from  *)
(* 0, so it is also the number of slots before the one it points at.       *)
(***************************************************************************)
EXTENDS Integers, Sequences, FiniteSets

CONSTANTS
    Keys, Values,
    Cursors,       \* live iterators
    COMPACT_FLOOR, \* vectors shorter than this are never compacted
    MaxIds,        \* bound on next_id
    None

ASSUME FloorAssumption == COMPACT_FLOOR \in Nat \ {0} /\ MaxIds \in Nat
ASSUME NoneAssumption == None \notin Nat /\ None \notin [key : Keys, value : Values]

VARIABLES slots,   \* sequence of [id, entry], entry None in a tombstone
          index,   \* key -> position of its slot, live keys only
          live,    \* number of live entries
          next_id,
          cursor   \* [next_id, hint, done] of every cursor

vars == <<slots, index, live, next_id, cursor>>

Alive(i) == slots[i].entry # None

Init ==
    /\ slots = <<>>
    /\ index = [k \in Keys |-> None]
    /\ live = 0
    /\ next_id = 0
    /\ cursor = [c \in Cursors |-> [next_id |-> 0, hint |-> 0, done |-> FALSE]]

-----------------------------------------------------------------------------
(* The map *)

Overwrite(k, v) ==
    /\ index[k] # None
    /\ slots' = [slots EXCEPT ![index[k]].entry.value = v]
    /\ UNCHANGED <<index, live, next_id, cursor>>

(* Mutant: a slot is numbered by its position.                             *)
InsertNumbersByPosition(k, v) ==
    /\ index[k] = None
    /\ next_id < MaxIds
    /\ slots' = Append(slots, [id |-> Len(slots), entry |-> [key |-> k, value |-> v]])
    /\ index' = [index EXCEPT ![k] = Len(slots) + 1]
    /\ live' = live + 1
    /\ next_id' = next_id + 1
    /\ UNCHANGED cursor

(* Mutant: a new entry is not counted.                                     *)
InsertUncounted(k, v) ==
    /\ index[k] = None
    /\ next_id < MaxIds
    /\ slots' = Append(slots, [id |-> next_id, entry |-> [key |-> k, value |-> v]])
    /\ index' = [index EXCEPT ![k] = Len(slots) + 1]
    /\ next_id' = next_id + 1
    /\ UNCHANGED <<live, cursor>>

Insert(k, v) ==
    /\ index[k] = None
    /\ next_id < MaxIds
    /\ slots' = Append(slots, [id |-> next_id, entry |-> [key |-> k, value |-> v]])
    /\ index' = [index EXCEPT ![k] = Len(slots) + 1]
    /\ live' = live + 1
    /\ next_id' = next_id + 1
    /\ UNCHANGED cursor

Set(k, v) == Overwrite(k, v) \/ Insert(k, v)

(* The live slots of s, in order: the n-th is the one with n - 1 before it.*)
Retain(s) ==
    LET kept == {i \in DOMAIN s : s[i].entry # None}
        rank(i) == Cardinality({j \in kept : j <= i})
    IN  [n \in 1 .. Cardinality(kept) |-> s[CHOOSE i \in kept : rank(i) = n]]

(* Mutant: compaction waits until tombstones outnumber the live entries.   *)
MostlyDeadLate(s, n) == ~(Len(s) < COMPACT_FLOOR \/ n * 2 >= Len(s))

MostlyDead(s, n) == ~(Len(s) < COMPACT_FLOOR \/ n * 2 > Len(s))

(* Mutant: a compaction moves the slots and not the index.                 *)
DeleteKeepsIndex(k) ==
    LET buried == [slots EXCEPT ![index[k]].entry = None]
    IN  /\ index[k] # None
        /\ live' = live - 1
        /\ slots' = IF MostlyDead(buried, live - 1) THEN Retain(buried) ELSE buried
        /\ index' = [index EXCEPT ![k] = None]
        /\ UNCHANGED <<next_id, cursor>>

Delete(k) ==
    LET buried == [slots EXCEPT ![index[k]].entry = None]
        removed == [index EXCEPT ![k] = None]
        kept == Retain(buried)
    IN  /\ index[k] # None
        /\ live' = live - 1
        /\ IF MostlyDead(buried, live - 1)
           THEN /\ slots' = kept
                /\ index' = [j \in Keys |->
                       IF \E n \in DOMAIN kept : kept[n].entry.key = j
                       THEN CHOOSE n \in DOMAIN kept : kept[n].entry.key = j
                       ELSE removed[j]]
           ELSE slots' = buried /\ index' = removed
        /\ UNCHANGED <<next_id, cursor>>

(* Mutant: a cleared map numbers its entries from zero again.              *)
ClearResetsIds ==
    /\ slots' = <<>>
    /\ index' = [k \in Keys |-> None]
    /\ live' = 0
    /\ next_id' = 0
    /\ UNCHANGED cursor

(* next_id is not reset: the entries of a cleared map are new to cursors.  *)
Clear ==
    /\ slots' = <<>>
    /\ index' = [k \in Keys |-> None]
    /\ live' = 0
    /\ UNCHANGED <<next_id, cursor>>

-----------------------------------------------------------------------------
(* Cursors *)

Open(c) ==
    /\ cursor' = [cursor EXCEPT ![c] = [next_id |-> 0, hint |-> 0, done |-> FALSE]]
    /\ UNCHANGED <<slots, index, live, next_id>>

(* Mutant: the slot before the hint is not looked at.                      *)
HintUnchecked(q) == q.hint >= Len(slots) \/ slots[q.hint + 1].id >= q.next_id

(* locate: the hint if its neighbours bear it out, else a binary search    *)
(* for the number of slots whose id the cursor has consumed.               *)
HintHolds(q) ==
    /\ q.hint = 0 \/ (q.hint <= Len(slots) /\ slots[q.hint].id < q.next_id)
    /\ q.hint >= Len(slots) \/ slots[q.hint + 1].id >= q.next_id

Locate(q) ==
    IF HintHolds(q) THEN q.hint
    ELSE Cardinality({i \in DOMAIN slots : slots[i].id < q.next_id})

(* Mutant: the end is not noticed over tombstones.                         *)
StepWaitsOverTombstones(c) ==
    LET q == cursor[c]
        scan == Locate(q) + 1 .. Len(slots)
        found == {i \in scan : Alive(i)}
        consume(i) == [q EXCEPT !.next_id = slots[i].id + 1, !.hint = i]
    IN  /\ ~q.done
        /\ cursor' = [cursor EXCEPT ![c] =
               IF found # {}
               THEN consume(CHOOSE i \in found : \A j \in found : i <= j)
               ELSE [q EXCEPT !.done = scan = {}]]
        /\ UNCHANGED <<slots, index, live, next_id>>

(* step: every slot scanned is consumed, tombstones too.                   *)
Step(c) ==
    LET q == cursor[c]
        scan == Locate(q) + 1 .. Len(slots)
        found == {i \in scan : Alive(i)}
        consume(i) == [q EXCEPT !.next_id = slots[i].id + 1, !.hint = i]
    IN  /\ ~q.done
        /\ cursor' = [cursor EXCEPT ![c] =
               IF found # {}
               THEN consume(CHOOSE i \in found : \A j \in found : i <= j)
               ELSE [IF scan = {} THEN q ELSE consume(Len(slots))
                     EXCEPT !.done = TRUE]]
        /\ UNCHANGED <<slots, index, live, next_id>>

Next ==
    \/ \E k \in Keys, v \in Values : Set(k, v)
    \/ \E k \in Keys : Delete(k)
    \/ Clear
    \/ \E c \in Cursors : Open(c) \/ Step(c)

Spec == Init /\ [][Next]_vars

(* A walk goes on: forEach and for ... of ask for the next entry until     *)
(* there is none, whatever their bodies do to the map.                     *)
FairSpec == Spec /\ \A c \in Cursors : WF_vars(Step(c))

-----------------------------------------------------------------------------
(* Properties *)

TypeOK ==
    /\ slots \in Seq([id : Nat, entry : [key : Keys, value : Values] \cup {None}])
    /\ index \in [Keys -> Nat \cup {None}]
    /\ live \in Nat
    /\ next_id \in Nat
    /\ cursor \in [Cursors -> [next_id : Nat, hint : Nat, done : BOOLEAN]]

(* "slots is always sorted strictly ascending by id regardless of how many *)
(* compactions have run", which the binary search of a cursor depends on;  *)
(* ids are never reused.                                                   *)
SlotsSorted ==
    /\ \A i, j \in DOMAIN slots : i < j => slots[i].id < slots[j].id
    /\ \A i \in DOMAIN slots : slots[i].id < next_id

(* "the index only ever points at a live slot", the one of its key, and    *)
(* has every live key; live counts them.                                   *)
IndexExact ==
    /\ \A k \in Keys : index[k] # None =>
            /\ index[k] \in DOMAIN slots
            /\ Alive(index[k]) /\ slots[index[k]].entry.key = k
    /\ \A i \in DOMAIN slots : Alive(i) => index[slots[i].entry.key] = i
    /\ live = Cardinality({i \in DOMAIN slots : Alive(i)})

(* Tombstones stay fewer than the live entries or than the floor: the      *)
(* memory of a map that is filled and emptied for ever is bounded.         *)
TombstonesBounded ==
    \/ Len(slots) - live < COMPACT_FLOOR
    \/ Len(slots) - live < live

(* A hint that passes its check is where a binary search would have led,   *)
(* whatever compactions and clears it slept through.                       *)
HintsSound ==
    \A c \in Cursors : HintHolds(cursor[c]) =>
        cursor[c].hint = Cardinality({i \in DOMAIN slots : slots[i].id < cursor[c].next_id})

(* The list of the Map: the entry of id i is its element i + 1.            *)
data == [n \in 1 .. next_id |->
            IF \E i \in DOMAIN slots : slots[i].id = n - 1
            THEN slots[CHOOSE i \in DOMAIN slots : slots[i].id = n - 1].entry
            ELSE None]
iters == [c \in Cursors |->
            [at |-> IF cursor[c].done THEN 0 ELSE cursor[c].next_id + 1,
             done |-> cursor[c].done]]

Abstract == INSTANCE MapSpec

(* Map semantics: order of insertion, overwrites in place, live iterators  *)
(* that skip what is deleted ahead of them, see what is appended, survive  *)
(* compactions and clears, and never resume after the end.                 *)
ImplementsMap == Abstract!Spec

(* A walk ends once nothing is inserted any more, unless it is begun anew: *)
(* no deletion, compaction or clear under it sends it back.                *)
WalksEnd == \A c \in Cursors : <>[](~cursor[c].done) => []<><<Open(c)>>_vars
=============================================================================
