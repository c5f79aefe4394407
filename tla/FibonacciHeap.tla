---------------------------- MODULE FibonacciHeap ----------------------------
(***************************************************************************)
(* structures/fibonacci_heap.rs: trees of nodes in an arena that never     *)
(* reuses a slot, their roots in a circular list, consolidated by pop.     *)
(*                                                                         *)
(* The comparator belongs to the caller.  Each of its calls is a point     *)
(* where the operation is suspended: the comparator may answer, throw, or  *)
(* first run other operations of this very heap.  An operation is a frame  *)
(* of the stack; a frame's fields are the locals of the Rust function,     *)
(* everything else is read afresh after a comparison, as the code does.    *)
(***************************************************************************)
EXTENDS Integers, SequencesExt

CONSTANTS
    Items,      \* numbers, in the order of DEFAULT_COMPARATOR
    Comparators, \* what comparators do beyond answering: [calls, throws], the
                 \* operations they call and a bound on how often they throw
    MaxNodes,    \* bound on the nodes ever created
    MaxDepth,    \* bound on operations suspended inside one another
    None

ASSUME BoundsAssumption ==
    /\ Items \subseteq Int /\ MaxNodes \in Nat /\ MaxDepth \in Nat
    /\ \A c \in Comparators : c.calls \subseteq {"push", "pop", "clear"} /\ c.throws \in Nat

(* The comparators of the runs: those that only answer, those that push    *)
(* into the heap they compare for, and those that throw once.              *)
Answers == [calls |-> {}, throws |-> 0]
Pushes == [calls |-> {"push"}, throws |-> 0]
ThrowsOnce == [calls |-> {}, throws |-> 1]
AllComparators == {Answers, Pushes, ThrowsOnce}
ThrowingComparators == {ThrowsOnce}

Null == 0

VARIABLES
    nodes,   \* the arena: a sequence of nodes, addressed by position
    root,    \* a node of the root list, or Null
    min,     \* the node peek and pop answer with, or Null
    size,
    frames,  \* suspended operations, innermost last
    popped,  \* what the last pop returned
    comparator,
    throws,  \* where comparisons threw so far
    failures \* other failures so far: the two panics of pop, named after the
             \* field upstream reads of null, and walks that never end

vars == <<nodes, root, min, size, frames, popped, comparator, throws, failures>>
history == <<comparator, throws, failures>>
trees == <<nodes, root>>

Top == frames[Len(frames)]
Return == SubSeq(frames, 1, Len(frames) - 1)
Resume(f) == [frames EXCEPT ![Len(frames)] = f]

Node(v, n) == [item |-> v, degree |-> 0, parent |-> Null, child |-> Null,
               left |-> n, right |-> n]

-----------------------------------------------------------------------------
(* Circular lists.  t is a pair of an arena and a root.                    *)

(* Mutant: the node after the new one does not hear of it.                 *)
InsertOneWay(ns, at, n) ==
    [ns EXCEPT ![n].right = ns[at].right, ![n].left = at, ![at].right = n]

InsertAfter(ns, at, n) ==
    LET next == ns[at].right
    IN  [ns EXCEPT ![n].right = next, ![n].left = at,
                   ![next].left = n, ![at].right = n]

MergeWithRoot(t, n) ==
    IF t.root = Null THEN [t EXCEPT !.root = n]
    ELSE [t EXCEPT !.nodes = InsertAfter(@, t.root, n)]

MergeWithChild(ns, p, n) ==
    IF ns[p].child = Null THEN [ns EXCEPT ![p].child = n]
    ELSE InsertAfter(ns, ns[p].child, n)

(* The node removed keeps its own pointers; pop reads them afterwards.     *)
RemoveFromRoot(t, n) ==
    LET l == t.nodes[n].left
        r == t.nodes[n].right
    IN  [nodes |-> [t.nodes EXCEPT ![l].right = r, ![r].left = l],
         root |-> IF t.root = n THEN r ELSE t.root]

(* link: y becomes a child of x.                                           *)
Link(t, y, x) ==
    LET cut == RemoveFromRoot(t, y)
        alone == [cut.nodes EXCEPT ![y].left = y, ![y].right = y]
        hung == MergeWithChild(alone, x, y)
    IN  [cut EXCEPT !.nodes = [hung EXCEPT ![x].degree = @ + 1, ![y].parent = x]]

(* consume_linked_list: the nodes from head on until head comes round.  It *)
(* never does if the pointers lead into a ring that head is not part of.   *)
Walk(ns, head) ==
    LET at[i \in 0 .. Len(ns)] == IF i = 0 THEN head ELSE ns[at[i - 1]].right
    IN  at

ComesRound(ns, head) == \E i \in 1 .. Len(ns) : Walk(ns, head)[i] = head

Ring(ns, head) ==
    LET at == Walk(ns, head)
        n == CHOOSE i \in 1 .. Len(ns) :
                /\ at[i] = head
                /\ \A j \in 1 .. i - 1 : at[j] # head
    IN  [i \in 1 .. n |-> at[i - 1]]

-----------------------------------------------------------------------------
(* Operations start when nothing runs, or inside a comparison.             *)

Comparing == {"tie", "link", "scan"}

Running(at) == frames # <<>> /\ Top.at = at /\ "endless" \notin failures

MayCall(op) ==
    /\ "endless" \notin failures
    /\ \/ frames = <<>>
       \/ /\ op \in comparator.calls
          /\ Len(frames) \in 1 .. MaxDepth - 1
          /\ Top.at \in Comparing

Init ==
    /\ nodes = <<>>
    /\ root = Null /\ min = Null /\ size = 0
    /\ frames = <<>>
    /\ popped = None
    /\ comparator \in Comparators
    /\ throws = <<>>
    /\ failures = {}

(* push: the node joins the root list before it is compared.               *)
Push(v) ==
    LET n == Len(nodes) + 1
        t == MergeWithRoot([nodes |-> Append(nodes, Node(v, n)), root |-> root], n)
    IN  /\ MayCall("push")
        /\ n <= MaxNodes
        /\ nodes' = t.nodes /\ root' = t.root
        /\ IF min = Null
           THEN min' = n /\ size' = size + 1 /\ UNCHANGED frames
           ELSE /\ frames' = Append(frames, [at |-> "tie", x |-> n, b |-> min])
                /\ UNCHANGED <<min, size>>
        /\ UNCHANGED <<popped, history>>

(* Mutant: only a new minimum is counted.                                  *)
AnswerTieCountsLeast ==
    /\ Running("tie")
    /\ IF nodes[Top.x].item <= nodes[Top.b].item
       THEN min' = Top.x /\ size' = size + 1
       ELSE UNCHANGED <<min, size>>
    /\ frames' = Return
    /\ UNCHANGED <<trees, popped, history>>

AnswerTie ==
    /\ Running("tie")
    /\ min' = IF nodes[Top.x].item <= nodes[Top.b].item THEN Top.x ELSE min
    /\ size' = size + 1
    /\ frames' = Return
    /\ UNCHANGED <<trees, popped, history>>

Clear ==
    /\ MayCall("clear")
    /\ root' = Null /\ min' = Null /\ size' = 0
    /\ UNCHANGED <<nodes, frames, popped, history>>

PopEmpty ==
    /\ MayCall("pop")
    /\ size = 0
    /\ popped' = None
    /\ UNCHANGED <<trees, min, size, frames, history>>

Fail(how) ==
    /\ failures' = failures \cup {how}
    /\ UNCHANGED <<size, frames, popped, comparator, throws>>

PopNothing ==
    /\ MayCall("pop")
    /\ size # 0 /\ min = Null
    /\ Fail("child")
    /\ UNCHANGED <<trees, min>>

(* The heap once z left it: its children joined the root list in the order *)
(* of their own, then z was spliced out.                                   *)
Without(z) ==
    LET children == IF nodes[z].child = Null THEN <<>> ELSE Ring(nodes, nodes[z].child)
        joined[i \in 0 .. Len(children)] ==
            IF i = 0 THEN [nodes |-> nodes, root |-> root]
            ELSE [MergeWithRoot(joined[i - 1], children[i])
                      EXCEPT !.nodes[children[i]].parent = Null]
    IN  RemoveFromRoot(joined[Len(children)], z)

Pop ==
    LET z == min
        t == Without(z)
    IN  /\ MayCall("pop")
        /\ size # 0 /\ z # Null
        /\ IF nodes[z].child # Null /\ ~ComesRound(nodes, nodes[z].child)
           THEN Fail("endless") /\ UNCHANGED <<trees, min>>
           ELSE IF t.nodes[z].right = z
           THEN /\ nodes' = t.nodes
                /\ root' = Null /\ min' = Null
                /\ size' = size - 1
                /\ popped' = nodes[z].item
                /\ UNCHANGED <<frames, history>>
           ELSE /\ nodes' = t.nodes /\ root' = t.root
                /\ min' = t.nodes[z].right
                /\ IF t.root = Null THEN Fail("right")
                   ELSE IF ~ComesRound(t.nodes, t.root) THEN Fail("endless")
                   ELSE /\ frames' = Append(frames,
                              [at |-> "next", z |-> z, todo |-> Ring(t.nodes, t.root),
                               table |-> <<>>, degree |-> 0, x |-> Null, b |-> Null])
                        /\ UNCHANGED <<size, popped, history>>

-----------------------------------------------------------------------------
(* consolidate, between the comparisons it makes                           *)

At(table, d) == IF d < Len(table) THEN table[d + 1] ELSE Null
Put(table, d, n) ==
    [i \in 1 .. IF d < Len(table) THEN Len(table) ELSE d + 1 |->
        IF i = d + 1 THEN n ELSE At(table, i - 1)]

NextRoot ==
    /\ Running("next")
    /\ frames' = Resume(
          IF Top.todo # <<>>
          THEN [Top EXCEPT !.at = "bucket", !.todo = Tail(@), !.x = Head(Top.todo),
                           !.degree = nodes[Head(Top.todo)].degree]
          ELSE [Top EXCEPT !.at = "look", !.degree = 0])
    /\ UNCHANGED <<trees, min, size, popped, history>>

(* A bucket that is taken is compared with, an empty one is filled.        *)
Bucket ==
    /\ Running("bucket")
    /\ frames' = Resume(
          IF At(Top.table, Top.degree) # Null
          THEN [Top EXCEPT !.at = "link", !.b = At(Top.table, Top.degree)]
          ELSE [Top EXCEPT !.at = "next", !.table = Put(@, Top.degree, Top.x)])
    /\ UNCHANGED <<trees, min, size, popped, history>>

(* Mutant: the greater of two roots is put on top.                         *)
AnswerLinkUpsideDown ==
    LET swap == nodes[Top.x].item < nodes[Top.b].item
        upper == IF swap THEN Top.b ELSE Top.x
        lower == IF swap THEN Top.x ELSE Top.b
        t == Link([nodes |-> nodes, root |-> root], lower, upper)
    IN  /\ Running("link")
        /\ nodes' = t.nodes /\ root' = t.root
        /\ frames' = Resume([Top EXCEPT !.at = "bucket", !.x = upper,
                                        !.table = Put(@, Top.degree, Null),
                                        !.degree = @ + 1])
        /\ UNCHANGED <<min, size, popped, history>>

AnswerLink ==
    LET x == Top.x
        y == Top.b
        swap == nodes[x].item > nodes[y].item
        upper == IF swap THEN y ELSE x
        lower == IF swap THEN x ELSE y
        t == Link([nodes |-> nodes, root |-> root], lower, upper)
    IN  /\ Running("link")
        /\ nodes' = t.nodes /\ root' = t.root
        /\ frames' = Resume([Top EXCEPT !.at = "bucket", !.x = upper,
                                        !.table = Put(@, Top.degree, Null),
                                        !.degree = @ + 1])
        /\ UNCHANGED <<min, size, popped, history>>

(* Mutant: an empty bucket is not passed.                                  *)
LookStaysAtEmpty ==
    LET candidate == At(Top.table, Top.degree)
    IN  /\ Running("look")
        /\ Top.degree < size
        /\ candidate # Null /\ min # Null
        /\ frames' = Resume([Top EXCEPT !.at = "scan", !.x = candidate, !.b = min])
        /\ UNCHANGED <<trees, min, size, popped, history>>

(* The buckets below the size, as it is now, are searched for the minimum; *)
(* the last step of a pop is to count its node out.                        *)
Look ==
    LET candidate == At(Top.table, Top.degree)
    IN  /\ Running("look")
        /\ Top.degree < size
        /\ frames' = Resume(
              IF candidate # Null /\ min # Null
              THEN [Top EXCEPT !.at = "scan", !.x = candidate, !.b = min]
              ELSE [Top EXCEPT !.degree = @ + 1])
        /\ UNCHANGED <<trees, min, size, popped, history>>

(* Mutant: a root equal to the minimum does not replace it.                *)
AnswerScanStrict ==
    /\ Running("scan")
    /\ min' = IF nodes[Top.x].item < nodes[Top.b].item THEN Top.x ELSE min
    /\ frames' = Resume([Top EXCEPT !.at = "look", !.degree = @ + 1])
    /\ UNCHANGED <<trees, size, popped, history>>

AnswerScan ==
    /\ Running("scan")
    /\ min' = IF nodes[Top.x].item <= nodes[Top.b].item THEN Top.x ELSE min
    /\ frames' = Resume([Top EXCEPT !.at = "look", !.degree = @ + 1])
    /\ UNCHANGED <<trees, size, popped, history>>

Finish ==
    /\ Running("look")
    /\ Top.degree >= size
    /\ size' = size - 1
    /\ popped' = nodes[Top.z].item
    /\ frames' = Return
    /\ UNCHANGED <<trees, min, history>>

(* The ? after a comparison: the operation is left where it stands.        *)
Throw ==
    /\ \E at \in Comparing : Running(at)
    /\ Len(throws) < comparator.throws
    /\ throws' = Append(throws, Top.at)
    /\ frames' = Return
    /\ UNCHANGED <<trees, min, size, popped, comparator, failures>>

Next ==
    \/ \E v \in Items : Push(v)
    \/ AnswerTie
    \/ Clear
    \/ PopEmpty \/ PopNothing \/ Pop
    \/ NextRoot \/ Bucket \/ AnswerLink \/ Look \/ AnswerScan \/ Finish
    \/ Throw

Spec == Init /\ [][Next]_vars

(* What a call does between two comparisons, and the comparator's answers. *)
Progress == AnswerTie \/ NextRoot \/ Bucket \/ AnswerLink \/ Look \/ AnswerScan \/ Finish

(* A call that is under way goes on: nothing else runs, and the comparator *)
(* may call the heap, but answers in the end.                              *)
FairSpec == Spec /\ WF_vars(Progress)

-----------------------------------------------------------------------------
(* Properties *)

Idle == frames = <<>>
Pure == comparator.calls = {} /\ comparator.throws = 0
AtMostOnePushThrew == throws \in {<<>>, <<"tie">>}

(* The nodes that can be reached from the root list.                       *)
Below(n) == IF nodes[n].child = Null THEN {} ELSE Range(Ring(nodes, nodes[n].child))
Roots == IF root = Null THEN {} ELSE Range(Ring(nodes, root))
Reached ==
    LET upto[d \in 0 .. Len(nodes)] ==
            IF d = 0 THEN Roots
            ELSE upto[d - 1] \cup UNION {Below(n) : n \in upto[d - 1]}
    IN  upto[Len(nodes)]

(* The lists are rings in both directions; no child is smaller than its    *)
(* parent, and the parent knows how many it has.  Between any two          *)
(* comparisons, pushes of the comparator's and pushes cut short included.  *)
Shape ==
    comparator.calls \subseteq {"push"} /\ AtMostOnePushThrew =>
        /\ \A n \in Reached :
            /\ nodes[nodes[n].right].left = n
            /\ \A c \in Below(n) : nodes[c].parent = n /\ nodes[n].item <= nodes[c].item
            /\ Cardinality(Below(n)) = nodes[n].degree
        /\ \A n \in Roots : nodes[n].parent = Null

(* Pushes made by a comparator are counted, also those inside a pop; after *)
(* pushes cut short the size may lag behind the nodes but not exceed them. *)
SizeCounts ==
    comparator.calls \subseteq {"push"} /\ AtMostOnePushThrew /\ Idle =>
        /\ size <= Cardinality(Reached)
        /\ throws = <<>> => size = Cardinality(Reached)

(* With a pure comparator the node peek answers with is a root no node is  *)
(* smaller than: the scan, which stops at the size, never misses a root.   *)
PeekIsLeast ==
    Pure /\ Idle =>
        /\ min = Null => Reached = {}
        /\ min # Null => /\ min \in Roots
                         /\ \A n \in Reached : nodes[min].item <= nodes[n].item

(* consume_linked_list: the lists are "circular", so a walk comes round.   *)
WalksEnd == "endless" \notin failures

(* An item is in the queue from the return of its push to that of its pop. *)
content ==
    LET pushing == {f \in Range(frames) : f.at = "tie"}
        inside == Reached \cup {f.z : f \in Range(frames) \ pushing}
        held == IF Pure THEN inside \ {f.x : f \in pushing} ELSE {}
    IN  [v \in Items |-> Cardinality({n \in held : nodes[n].item = v})]

Abstract == INSTANCE PriorityQueue WITH popped <- IF Pure THEN popped ELSE None

(* With a pure comparator the heap is a priority queue: nothing lost in    *)
(* the rings, nothing returned twice, always a least item.                 *)
ImplementsPriorityQueue == Abstract!Spec

(* Every call returns if the comparator answers, whatever it pushes: the   *)
(* links of a pop come to an empty bucket, and its scan, which stops at    *)
(* the size, stops although the size grows with those pushes.  Throwing    *)
(* out of one push does no harm either.  Out of two it does, as the size   *)
(* is then so far behind that a scan stops short of a root; and a throw    *)
(* out of a pop may leave a list that none comes to the end of.            *)
CallsReturn ==
    (comparator.calls \subseteq {"push"} /\ frames # <<>>)
        ~> (frames = <<>> /\ (AtMostOnePushThrew => WalksEnd))
=============================================================================
