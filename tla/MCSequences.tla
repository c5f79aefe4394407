---------------------------- MODULE MCSequences ----------------------------
(* The linear structures under one roof: kind names the one that the       *)
(* behaviour is about, chosen in the initial state; each is instantiated   *)
(* over the same variables, first and last being the positions it keeps.   *)
EXTENDS Integers, Sequences, SequencesExt

CONSTANTS Capacity, MaxItems, MaxSurplus, None, FullError,
          BlockSize, MaxCapacity, MaxWrites \* for the two arrays

(* None is the code's None, and neither an item nor an array.  The bounds  *)
(* leave room for what a structure may be made of.                         *)
ASSUME SequencesAssumption ==
    /\ None \notin Int /\ None \notin Seq(Int \cup {None})
    /\ Capacity \in Nat \ {0} /\ BlockSize \in Nat \ {0}
    /\ MaxItems \in Nat /\ MaxItems >= 2
    /\ MaxSurplus \in Nat /\ Capacity + MaxSurplus <= MaxItems
    /\ MaxWrites \in 0 .. MaxItems
    /\ MaxCapacity \in Nat \ {0}

VARIABLES kind, store, first, last, size, arrived, call, walk

vars == <<kind, store, first, last, size, arrived, call, walk>>

Deque == INSTANCE Ring WITH items <- store, start <- first, Overwrites <- FALSE
Buffer == INSTANCE Ring WITH items <- store, start <- first, Overwrites <- TRUE
Fifo == INSTANCE Queue WITH items <- store, offset <- first
Lifo == INSTANCE Stack WITH items <- store, Capacity <- None
FixedLifo == INSTANCE Stack WITH items <- store
Linked == INSTANCE LinkedList WITH next <- store, head <- first, tail <- last
Vec == INSTANCE Vector WITH
    array <- store, length <- size, capacity <- first,
    MaxItems <- MaxWrites, MaxCapacity <- Capacity
Tree == INSTANCE HashedArrayTree WITH
    blocks <- store, length <- size, capacity <- first, MaxItems <- MaxWrites

Init ==
    \/ kind = "FixedDeque" /\ Deque!Init /\ last = 0
    \/ kind = "CircularBuffer" /\ Buffer!Init /\ last = 0
    \/ kind = "Queue" /\ Fifo!Init /\ last = 0
    \/ kind = "Stack" /\ Lifo!Init /\ first = 0 /\ last = 0
    \/ kind = "FixedStack" /\ FixedLifo!Init /\ first = 0 /\ last = 0
    \/ kind = "LinkedList" /\ Linked!Init /\ arrived = 0
    \/ kind = "Vector" /\ Vec!Init /\ last = 0
    \/ /\ kind = "HashedArrayTree" /\ Tree!Init /\ last = 0
       /\ walk = Vec!OpenCursor(None, 0)

Next ==
    /\ \/ kind = "FixedDeque" /\ Deque!Next /\ UNCHANGED last
       \/ kind = "CircularBuffer" /\ Buffer!Next /\ UNCHANGED last
       \/ kind = "Queue" /\ Fifo!Next /\ UNCHANGED last
       \/ kind = "Stack" /\ Lifo!Next /\ UNCHANGED <<first, last>>
       \/ kind = "FixedStack" /\ FixedLifo!Next /\ UNCHANGED <<first, last>>
       \/ kind = "LinkedList" /\ Linked!Next /\ UNCHANGED arrived
       \/ kind = "Vector" /\ Vec!Next /\ UNCHANGED last
       \/ kind = "HashedArrayTree" /\ Tree!Next /\ UNCHANGED <<last, walk>>
    /\ UNCHANGED kind

Spec == Init /\ [][Next]_vars

-----------------------------------------------------------------------------

(* Each structure's own invariant of its layout.                           *)
LayoutSound ==
    CASE kind = "FixedDeque" -> Deque!LayoutSound
      [] kind = "CircularBuffer" -> Buffer!LayoutSound
      [] kind = "Queue" -> Fifo!LayoutSound
      [] kind = "Stack" -> Lifo!LayoutSound
      [] kind = "FixedStack" -> FixedLifo!LayoutSound
      [] kind = "LinkedList" -> Linked!LayoutSound
      [] kind = "Vector" -> Vec!LayoutSound
      [] kind = "HashedArrayTree" -> Tree!LayoutSound

(* Peeks and reads by index answer as the array of the contents does.      *)
ReadsAgree ==
    CASE kind = "FixedDeque" -> Deque!ReadsAgree
      [] kind = "CircularBuffer" -> Buffer!ReadsAgree
      [] kind = "Queue" -> Fifo!ReadsAgree
      [] kind = "Stack" -> Lifo!ReadsAgree
      [] kind = "FixedStack" -> FixedLifo!ReadsAgree
      [] kind = "LinkedList" -> Linked!ReadsAgree
      [] kind = "Vector" -> Vec!ReadsAgree
      [] kind = "HashedArrayTree" -> Tree!ReadsAgree

InWalkOrder ==
    CASE kind \in {"FixedDeque", "CircularBuffer"} -> Deque!ToArray
      [] kind = "Queue" -> Fifo!ToVec
      [] kind = "Stack" -> Lifo!ToVec
      [] kind = "FixedStack" -> FixedLifo!ToVec
      [] kind = "LinkedList" -> Linked!ToArray
      [] kind = "Vector" -> Vec!ToVec
      [] kind = "HashedArrayTree" -> Tree!ToVec

Contents == IF kind \in {"Stack", "FixedStack"} THEN Reverse(InWalkOrder) ELSE InWalkOrder

(* A walk over a structure that nothing was called on since it opened      *)
(* reports its contents, in order and to the last; what an overfilled      *)
(* stack dropped is not there.                                             *)
FreshWalksComplete ==
    LET dropped == IF kind = "FixedStack" THEN FixedLifo!Dropped ELSE 0
        there == SubSeq(InWalkOrder, dropped + 1, Len(InWalkOrder))
    IN  walk.fresh =>
            IF walk.ended THEN walk.seen = there ELSE IsPrefix(walk.seen, there)

(* Whatever is done to the structure under it, a walk reports no item      *)
(* twice (the zeros of a vector are no items), unless it is to go round an *)
(* overfilled deque, and that of a queue reports consecutive arrivals.     *)
WalksReportOnce ==
    /\ (kind \in {"FixedDeque", "CircularBuffer"} => walk.len <= Capacity) =>
           \A i, j \in DOMAIN walk.seen :
               i # j /\ walk.seen[i] # 0 => walk.seen[i] # walk.seen[j]
    /\ kind = "Queue" => Fifo!WalkIsContiguous

List == INSTANCE ListSpec WITH
    Items <- 0 .. MaxItems,
    list <- Contents,
    call <- IF kind = "HashedArrayTree" THEN Tree!CallMeant ELSE call,
    capacity <- IF kind \in {"FixedDeque", "CircularBuffer", "FixedStack"}
                THEN Capacity ELSE MaxItems + MaxCapacity,
    policy <- IF kind = "CircularBuffer" THEN "evict" ELSE "refuse"

listVars == List!vars

Overfilled ==
    \/ kind \in {"FixedDeque", "CircularBuffer"} /\ Deque!Overfilled
    \/ kind = "FixedStack" /\ FixedLifo!Overfilled

PastPromise ==
    \/ kind \in {"FixedDeque", "CircularBuffer"} /\ Deque!PastPromise
    \/ kind = "FixedStack" /\ FixedLifo!PastPromise

(* Every call does to the contents, and answers, what the list promises,   *)
(* but for the pops of a HashedArrayTree that read another block; a list   *)
(* is never overfilled by a call, and one that was made so gives what it   *)
(* has from its ends as any other, and is a list when it is full.          *)
ImplementsList ==
    /\ Overfilled \/ List!Init
    /\ [][List!Next \/ PastPromise]_listVars

(* "this walk never yields Step::Gap in practice" (the comment on the      *)
(* Sequence of a Vector): what an open iterator has ahead of it is there.  *)
VectorWalksMeetNoGap == kind = "Vector" => Vec!NoGapAhead
=============================================================================
