-------------------------------- MODULE Heap --------------------------------
(***************************************************************************)
(* structures/heap.rs: a binary heap in an array that the algorithms are   *)
(* handed by reference.  The comparator belongs to the caller: at each of  *)
(* its calls the operation is suspended, and the comparator may answer,    *)
(* throw, or first run other operations of this very heap.  A clear gives  *)
(* the heap a new array; the operations it interrupts go on in the one     *)
(* they have.                                                              *)
(*                                                                         *)
(* An operation is a frame of the stack; a frame's fields are the locals   *)
(* of the Rust functions.  Indexes count from 0 as in the code, At and Put *)
(* address a sequence with them.                                           *)
(***************************************************************************)
EXTENDS Integers, SequencesExt

CONSTANTS
    Items,       \* numbers, in the order of DEFAULT_COMPARATOR
    Comparators, \* what comparators do beyond answering: [calls, throws], the
                 \* operations they call and a bound on how often they throw
    MaxLength,   \* bound on what a push lengthens
    MaxDepth,    \* bound on operations suspended inside one another
    None         \* JavaScript's undefined: a hole, or the end of the array

ASSUME HeapAssumption ==
    /\ Items \subseteq Int /\ None \notin Items
    /\ MaxLength \in Nat /\ MaxDepth \in Nat \ {0}
    /\ \A c \in Comparators : c.calls \subseteq {"push", "pop", "clear"} /\ c.throws \in Nat

(* The comparators of the runs: those that only answer, those that push    *)
(* into the heap they compare for or clear it, and those that throw once.  *)
Answers == [calls |-> {}, throws |-> 0]
Pushes == [calls |-> {"push"}, throws |-> 0]
Clears == [calls |-> {"clear"}, throws |-> 0]
ThrowsOnce == [calls |-> {}, throws |-> 1]
AllComparators == {Answers, Pushes, Clears, ThrowsOnce}

VARIABLES
    arrays,  \* the arrays that are held, by handle
    items,   \* handle of the heap's own
    size,
    frames,  \* suspended operations, innermost last
    popped,  \* what was last taken out
    comparator,
    throws   \* how often a comparison threw so far

vars == <<arrays, items, size, frames, popped, comparator, throws>>
history == <<comparator, throws>>

Handles == 1 .. MaxDepth + 1

Top == frames[Len(frames)]
Return == SubSeq(frames, 1, Len(frames) - 1)
Resume(f) == [frames EXCEPT ![Len(frames)] = f]

Held(fs) == {fs[n].array : n \in DOMAIN fs}

(* An array that neither the heap nor a frame holds is gone.               *)
Collected(as, own, fs) ==
    [h \in Handles |-> IF h \in {own} \cup Held(fs) THEN as[h] ELSE <<>>]

-----------------------------------------------------------------------------
(* JavaScript arrays *)

At(a, i) == IF i \in 0 .. Len(a) - 1 THEN a[i + 1] ELSE None

Put(a, i, v) ==
    [n \in 1 .. IF i < Len(a) THEN Len(a) ELSE i + 1 |->
        IF n = i + 1 THEN v ELSE At(a, n - 1)]

Pulled(a) == IF a = <<>> THEN a ELSE SubSeq(a, 1, Len(a) - 1)

(* undefined is neither less nor greater than anything.                    *)
Less(a, b) == a # None /\ b # None /\ a < b
NotLess(a, b) == ~Less(a, b)

-----------------------------------------------------------------------------
(* Where an operation stands: about to go up or down a level, or at a      *)
(* comparison of two children, with a parent, or with the front.  a and b  *)
(* are what is compared, given the item handed in, out the one to be       *)
(* returned, left how many rounds are to go (of a consume, of a heapify).  *)

Frame(op, given, left) ==
    [op |-> op, array |-> items, given |-> given, out |-> None, left |-> left,
     at |-> "done", item |-> None, start |-> 0, i |-> 0, child |-> 0, end |-> 0, a |-> None, b |-> None]

(* sift_down(start, i) and sift_up(i), on array ns as it is then.          *)
SiftDown(f, ns, start, i) ==
    [f EXCEPT !.at = "down", !.start = start, !.i = i, !.item = At(ns, i)]

SiftUp(f, ns, i) ==
    [f EXCEPT !.at = "up", !.start = i, !.i = i, !.child = 2 * i + 1,
              !.end = Len(ns), !.item = At(ns, i)]

(* The pop of the array, up to its first comparison.                       *)
Popping(f, ns) ==
    LET rest == Pulled(ns)
        moved == Put(rest, 0, At(ns, Len(ns) - 1))
    IN  IF rest = <<>>
        THEN [frame |-> [f EXCEPT !.at = "done", !.out = At(ns, Len(ns) - 1)], array |-> rest]
        ELSE [frame |-> SiftUp([f EXCEPT !.out = At(rest, 0)], moved, 0), array |-> moved]

Comparing == {"right", "parent", "front"}

Running(at) == frames # <<>> /\ Top.at = at

MayCall(op) ==
    \/ frames = <<>>
    \/ /\ op \in comparator.calls
       /\ Len(frames) \in 1 .. MaxDepth - 1
       /\ Top.at \in Comparing
       /\ frames[1].op # "from"

Enter(f, array) ==
    /\ frames' = Append(frames, f)
    /\ arrays' = [arrays EXCEPT ![items] = array]

-----------------------------------------------------------------------------
(* The operations, up to the first comparison *)

(* new, or from_items: the array is heapified before it is the heap's.     *)
Init ==
    /\ comparator \in Comparators
    /\ throws = 0 /\ size = 0 /\ popped = None /\ items = 1
    /\ \/ /\ arrays = [h \in Handles |-> <<>>]
          /\ frames = <<>>
       \/ \E n \in 2 .. MaxLength : \E given \in [1 .. n -> Items] :
              /\ arrays = [h \in Handles |-> IF h = 2 THEN given ELSE <<>>]
              /\ frames = <<[Frame("from", None, n \div 2) EXCEPT !.array = 2]>>

Push(v) ==
    LET longer == Append(arrays[items], v)
    IN  /\ MayCall("push")
        /\ Len(longer) <= MaxLength
        /\ Enter(SiftDown(Frame("push", v, 0), longer, 0, Len(longer) - 1), longer)
        /\ UNCHANGED <<items, size, popped, history>>

Pop ==
    LET begun == Popping(Frame("pop", None, 0), arrays[items])
    IN  /\ MayCall("pop")
        /\ size' = IF size # 0 THEN size - 1 ELSE 0
        /\ Enter(begun.frame, begun.array)
        /\ UNCHANGED <<items, popped, history>>

Replace(v) ==
    LET front == At(arrays[items], 0)
        given == Put(arrays[items], 0, v)
    IN  /\ MayCall("replace")
        /\ arrays[items] # <<>>
        /\ Enter(SiftUp([Frame("replace", v, 0) EXCEPT !.out = front], given, 0), given)
        /\ UNCHANGED <<items, size, popped, history>>

Pushpop(v) ==
    LET f == [Frame("pushpop", v, 0) EXCEPT !.out = v]
    IN  /\ MayCall("pushpop")
        /\ Enter(IF arrays[items] = <<>> THEN f
                 ELSE [f EXCEPT !.at = "front", !.a = At(arrays[items], 0), !.b = v],
                 arrays[items])
        /\ UNCHANGED <<items, size, popped, history>>

(* Mutant: consume leaves the size to its pops, which do not touch it.     *)
ConsumeKeepsSize ==
    LET begun == Popping(Frame("consume", None, Len(arrays[items]) - 1), arrays[items])
    IN  /\ MayCall("consume")
        /\ IF arrays[items] = <<>> THEN UNCHANGED <<frames, arrays>>
           ELSE Enter(begun.frame, begun.array)
        /\ UNCHANGED <<items, size, popped, history>>

(* consume: the size is zero from the start; every round is a pop.         *)
Consume ==
    LET begun == Popping(Frame("consume", None, Len(arrays[items]) - 1), arrays[items])
    IN  /\ MayCall("consume")
        /\ size' = 0
        /\ IF arrays[items] = <<>> THEN UNCHANGED <<frames, arrays>>
           ELSE Enter(begun.frame, begun.array)
        /\ UNCHANGED <<items, popped, history>>

(* The heap gets a new array; the frames keep the one they have.           *)
Clear ==
    /\ MayCall("clear")
    /\ items' = CHOOSE h \in Handles : h \notin {items} \cup Held(frames)
    /\ arrays' = Collected(arrays, items', frames)
    /\ size' = 0
    /\ UNCHANGED <<frames, popped, history>>

-----------------------------------------------------------------------------
(* The sifts *)

Ours == arrays[Top.array]

Go(f, array) ==
    /\ frames' = Resume(f)
    /\ arrays' = [arrays EXCEPT ![Top.array] = array]
    /\ UNCHANGED <<items, size, popped, history>>

(* The hole moves down to the child, which the array is asked for anew.    *)
Lower(child) ==
    Go([Top EXCEPT !.at = "up", !.i = child, !.child = 2 * child + 1],
       Put(Ours, Top.i, At(Ours, child)))

Up ==
    /\ Running("up")
    /\ IF Top.child + 1 < Top.end
       THEN Go([Top EXCEPT !.at = "right", !.a = At(Ours, Top.child),
                           !.b = At(Ours, Top.child + 1)], Ours)
       ELSE IF Top.child < Top.end THEN Lower(Top.child)
       ELSE LET filled == Put(Ours, Top.i, Top.item)
            IN  Go(SiftDown(Top, filled, Top.start, Top.i), filled)

(* Mutant: the left child is taken although the right one is less.         *)
AnswerRightSwapped ==
    /\ Running("right")
    /\ Lower(IF NotLess(Top.a, Top.b) THEN Top.child ELSE Top.child + 1)

AnswerRight ==
    /\ Running("right")
    /\ Lower(IF NotLess(Top.a, Top.b) THEN Top.child + 1 ELSE Top.child)

Parent(i) == (i - 1) \div 2

Down ==
    /\ Running("down")
    /\ IF Top.i > Top.start
       THEN Go([Top EXCEPT !.at = "parent", !.a = Top.item, !.b = At(Ours, Parent(Top.i))], Ours)
       ELSE Go([Top EXCEPT !.at = "done"], Put(Ours, Top.i, Top.item))

(* Mutant: the item is left one level too low.                             *)
AnswerParentOnce ==
    /\ Running("parent")
    /\ IF Less(Top.a, Top.b) /\ Parent(Top.i) # 0
       THEN Go([Top EXCEPT !.at = "down", !.i = Parent(Top.i)], Put(Ours, Top.i, Top.b))
       ELSE Go([Top EXCEPT !.at = "done"], Put(Ours, Top.i, Top.item))

AnswerParent ==
    /\ Running("parent")
    /\ IF Less(Top.a, Top.b)
       THEN Go([Top EXCEPT !.at = "down", !.i = Parent(Top.i)], Put(Ours, Top.i, Top.b))
       ELSE Go([Top EXCEPT !.at = "done"], Put(Ours, Top.i, Top.item))

AnswerFront ==
    /\ Running("front")
    /\ IF Less(Top.a, Top.b)
       THEN LET given == Put(Ours, 0, Top.out)
            IN  Go(SiftUp([Top EXCEPT !.out = At(Ours, 0)], given, 0), given)
       ELSE Go([Top EXCEPT !.at = "done"], Ours)

(* What follows the sift: a push counts its item, the others hand theirs   *)
(* out, and consume and heapify have another round.                        *)
Finish ==
    LET op == Top.op
        again == Popping([Top EXCEPT !.left = @ - 1], Ours)
    IN  /\ Running("done")
        /\ popped' = IF op \in {"push", "from"} THEN popped ELSE Top.out
        /\ size' = IF op = "push" THEN size + 1
                   ELSE IF op = "from" /\ Top.left = 0 THEN Len(Ours) ELSE size
        /\ items' = IF op = "from" /\ Top.left = 0 THEN Top.array ELSE items
        /\ IF Top.left = 0 THEN frames' = Return /\ arrays' = Collected(arrays, items', Return)
           ELSE IF op = "from"
           THEN /\ frames' = Resume(SiftUp([Top EXCEPT !.left = @ - 1], Ours, Top.left - 1))
                /\ UNCHANGED arrays
           ELSE /\ frames' = Resume(again.frame)
                /\ arrays' = [arrays EXCEPT ![Top.array] = again.array]
        /\ UNCHANGED history

(* The ? after a comparison: the operation is left where it stands.  What  *)
(* from_items was given is then nobody's.                                  *)
Throw ==
    /\ \E at \in Comparing : Running(at)
    /\ throws < comparator.throws
    /\ throws' = throws + 1
    /\ frames' = Return
    /\ arrays' = Collected(arrays, items, Return)
    /\ UNCHANGED <<items, size, popped, comparator>>

Next ==
    \/ \E v \in Items : Push(v) \/ Replace(v) \/ Pushpop(v)
    \/ Pop \/ Consume \/ Clear
    \/ Up \/ AnswerRight \/ Down \/ AnswerParent \/ AnswerFront
    \/ Finish
    \/ Throw

Spec == Init /\ [][Next]_vars

-----------------------------------------------------------------------------
(* Properties *)

Idle == frames = <<>>

(* Until something throws, and whatever the comparator clears, no item is  *)
(* less than its parent when no operation is under way, and none is a hole.*)
HeapOrdered ==
    comparator.calls \subseteq {"clear"} /\ throws = 0 /\ Idle =>
        \A i \in 0 .. Len(arrays[items]) - 1 :
            /\ At(arrays[items], i) # None
            /\ i > 0 => ~Less(At(arrays[items], i), At(arrays[items], Parent(i)))

(* "every later pop under-reports by one": a throw leaves the size behind  *)
(* the array and never ahead of it.  A comparator that pushes is counted   *)
(* exactly, also inside a consume; one that clears leaves the size ahead.  *)
SizeCounts ==
    Idle =>
        /\ comparator.calls = {} => size <= Len(arrays[items])
        /\ comparator.calls \subseteq {"push"} /\ throws = 0 => size = Len(arrays[items])
        /\ comparator.calls = {"clear"} /\ throws = 0 => Len(arrays[items]) <= size

(* An item is in the queue from the return of its push to that of its pop; *)
(* the hole of a sift stands for the item that will fill it.               *)
Pure == comparator.calls = {} /\ comparator.throws = 0

filled ==
    IF Idle THEN arrays[items]
    ELSE IF Top.at \in {"done", "front"} THEN Ours
    ELSE Put(Ours, Top.i, Top.item)

Count(v, a) == Cardinality({n \in DOMAIN a : a[n] = v})

content ==
    [v \in Items |->
        IF ~Pure THEN 0
        ELSE Count(v, filled) + IF Idle THEN 0 ELSE Count(v, <<Top.out>>) - Count(v, <<Top.given>>)]

Abstract == INSTANCE PriorityQueue WITH popped <- IF Pure THEN popped ELSE None

(* With a pure comparator the heap is a priority queue: nothing is lost in *)
(* the holes of the sifts, nothing is handed out twice, always a least one.*)
ImplementsPriorityQueue == Abstract!Spec
=============================================================================
