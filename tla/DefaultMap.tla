----------------------------- MODULE DefaultMap -----------------------------
(***************************************************************************)
(* default_map.rs, and get of its bridge: a map whose get makes what is    *)
(* missing.  The factory is the caller's: it runs after the lookup and     *)
(* before the insertion, with nothing locked, and may make any call of the *)
(* map, get included, before it answers or throws.                         *)
(***************************************************************************)
EXTENDS Entries

CONSTANTS MapKeys, Values, Undefined, MaxSize, MaxDepth

VARIABLES items,
          size,       \* counted, not asked of items
          factories,  \* the factories at work, the innermost last: for which
                      \* key, and the size they were told
          overwrites  \* history: how many factory insertions since the size
                      \* was last exact found an entry to overwrite

vars == <<items, size, factories, overwrites>>

Init ==
    /\ items = <<>>
    /\ size = 0
    /\ factories = <<>>
    /\ overwrites = 0

(* undefined is stored like any value, and asks for the factory again.     *)
Peek(k) == IF k \in Keys(items) THEN ValueOf(items, k) ELSE Undefined

Resync ==
    /\ size' = Len(items')
    /\ overwrites' = 0

Set(k, v) ==
    /\ items' = Put(items, k, v)
    /\ Resync
    /\ UNCHANGED factories

Delete(k) ==
    /\ items' = Drop(items, k)
    /\ Resync
    /\ UNCHANGED factories

Clear ==
    /\ items' = <<>>
    /\ Resync
    /\ UNCHANGED factories

(* A get that finds a value answers and changes nothing.                   *)
Get(k) ==
    /\ Peek(k) = Undefined
    /\ Len(factories) < MaxDepth
    /\ size + Len(factories) < MaxSize
    /\ factories' = Append(factories, [key |-> k, size |-> size])
    /\ UNCHANGED <<items, size, overwrites>>

Innermost == Last(factories)

(* Mutant: the size is counted from the one the factory was told.          *)
InsertFromFactoryStale(v) ==
    /\ factories # <<>>
    /\ items' = Put(items, Innermost.key, v)
    /\ size' = Innermost.size + 1
    /\ overwrites' = overwrites + IF Innermost.key \in Keys(items) THEN 1 ELSE 0
    /\ factories' = Front(factories)

(* The factory has answered: the insertion overwrites whatever was put     *)
(* under the key meanwhile, and counts as one more entry in any case.      *)
InsertFromFactory(v) ==
    /\ factories # <<>>
    /\ items' = Put(items, Innermost.key, v)
    /\ size' = size + 1
    /\ overwrites' = overwrites + IF Innermost.key \in Keys(items) THEN 1 ELSE 0
    /\ factories' = Front(factories)

FactoryThrows ==
    /\ factories # <<>>
    /\ factories' = Front(factories)
    /\ UNCHANGED <<items, size, overwrites>>

Next ==
    \/ \E k \in MapKeys : Delete(k) \/ Get(k)
    \/ \E k \in MapKeys, v \in Values \cup {Undefined} : Set(k, v)
    \/ \E v \in Values \cup {Undefined} : InsertFromFactory(v)
    \/ Clear
    \/ FactoryThrows

Spec == Init /\ [][Next]_vars

(* The size is the number of entries, too high by the overwriting          *)
(* insertions alone: never too low, whatever a factory did.                *)
SizeAccounted == size = Len(items) + overwrites /\ overwrites >= 0
=============================================================================
