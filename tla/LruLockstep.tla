----------------------------- MODULE LruLockstep -----------------------------
(***************************************************************************)
(* The engine run side by side with what it promises: every call is made   *)
(* on LruCache and on LruSpec at once, so their answers can be compared    *)
(* even where the lists of the engine no longer say what the order is.     *)
(***************************************************************************)
EXTENDS LruCache

VARIABLES order, cached, report

Promise == INSTANCE LruSpec
           WITH recency <- order, entry <- cached, popped <- report

LockstepVars == <<vars, order, cached, report>>

LockstepInit == Init /\ Promise!Init

LockstepNext ==
    \/ \E k \in Keys, v \in Values :
        \/ Set(k, v) /\ Promise!Set(k, v)
        \/ SetPop(k, v) /\ Promise!SetPop(k, v)
    \/ \E k \in Keys : Get(k) /\ Promise!Get(k)
    \/ Clear /\ Promise!Clear
    \/ \E w \in Walks : /\ OpenWalk(w) \/ AdvanceWalk(w)
                        /\ UNCHANGED <<order, cached, report>>

LockstepSpec == LockstepInit /\ [][LockstepNext]_LockstepVars

(* The with-delete pair.                                                   *)
LockstepDelete == \E k \in Keys : Delete(k) /\ Promise!Delete(k)

LockstepDeleteSpec ==
    LockstepInit /\ [][LockstepNext \/ LockstepDelete]_LockstepVars

(* Without deletions every call does to the engine what it does to the     *)
(* specification: a get promotes, a set of a new key in a full cache drops *)
(* the least recently used, setpop reports what it displaced.              *)
AgreesWithPromise == recency = order /\ entry = cached /\ popped = report

(* capacity(): "above which a set evicts the least recently used entry",   *)
(* so after any calls the cache holds the keys an LRU cache would hold.    *)
KeepsMostRecent ==
    \A ik \in IndexKeys : index[ik] # None <=> Promise!Cached(ik)
=============================================================================
