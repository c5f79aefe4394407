------------------------------- MODULE LruSpec -------------------------------
(***************************************************************************)
(* What an LRU cache promises, with no list and no pointers: the cached    *)
(* keys in order of recency, and the entry of each.  `LruCache` is shown   *)
(* to implement it as long as no entry is ever deleted.                    *)
(*                                                                         *)
(* A caller's key is known to the cache by its index key: two raw keys     *)
(* with one property-string form (3 and "3") are one entry of the          *)
(* object-backed caches.  An entry keeps the key it was first stored under.*)
(***************************************************************************)
EXTENDS Naturals, Sequences

CONSTANTS Capacity, Keys, IndexKeys, IndexOf, Coerce, Values, None

VARIABLES recency,  \* the cached index keys, most recently used first
          entry,    \* the stored pair of each cached index key, or None
          popped    \* what the last call of setpop reported, or None

specVars == <<recency, entry, popped>>

Cached(ik) == entry[ik] # None

Init ==
    /\ recency = <<>>
    /\ entry = [ik \in IndexKeys |-> None]
    /\ popped = None

(* The other cached keys, in their order. *)
Others(ik) ==
    LET place == CHOOSE i \in DOMAIN recency : recency[i] = ik
    IN  IF Cached(ik)
        THEN SubSeq(recency, 1, place - 1) \o SubSeq(recency, place + 1, Len(recency))
        ELSE recency

(* The order once ik is the most recently used key. *)
Promote(ik) == <<ik>> \o Others(ik)

(* Used beyond the capacity, the least recently used key leaves. *)
Admit(ik) ==
    IF ~Cached(ik) /\ Len(recency) = Capacity
    THEN SubSeq(Promote(ik), 1, Capacity)
    ELSE Promote(ik)

Write(k, v) ==
    LET ik == IndexOf[k]
        stays == {Admit(ik)[i] : i \in 1 .. Len(Admit(ik))}
        stored == IF Cached(ik) THEN entry[ik].key ELSE Coerce[k]
    IN  /\ recency' = Admit(ik)
        /\ entry' = [j \in IndexKeys |->
                        IF j = ik THEN [key |-> stored, value |-> v]
                        ELSE IF j \in stays THEN entry[j] ELSE None]

Set(k, v) == Write(k, v) /\ popped' = None

SetPop(k, v) ==
    LET ik == IndexOf[k]
        last == recency[Len(recency)]
    IN  /\ Write(k, v)
        /\ popped' = IF Cached(ik)
                     THEN [evicted |-> FALSE, key |-> Coerce[k],
                           value |-> entry[ik].value]
                     ELSE IF Len(recency) = Capacity
                     THEN [evicted |-> TRUE, key |-> entry[last].key,
                           value |-> entry[last].value]
                     ELSE None

Get(k) ==
    /\ recency' = IF Cached(IndexOf[k]) THEN Promote(IndexOf[k]) ELSE recency
    /\ popped' = None
    /\ UNCHANGED entry

Delete(k) ==
    /\ recency' = Others(IndexOf[k])
    /\ entry' = [entry EXCEPT ![IndexOf[k]] = None]
    /\ popped' = None

Clear ==
    /\ recency' = <<>>
    /\ entry' = [ik \in IndexKeys |-> None]
    /\ popped' = None

Next ==
    \/ \E k \in Keys, v \in Values : Set(k, v) \/ SetPop(k, v)
    \/ \E k \in Keys : Get(k) \/ Delete(k)
    \/ Clear

Spec == Init /\ [][Next]_specVars
=============================================================================
