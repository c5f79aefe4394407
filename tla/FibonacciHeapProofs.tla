------------------------ MODULE FibonacciHeapProofs ------------------------
(***************************************************************************)
(* What the Fibonacci heap keeps, for any items, any number of nodes and   *)
(* any depth of pushes inside comparisons, as long as a comparator calls   *)
(* nothing but push and no more than one push was cut short by it (Calm).  *)
(*                                                                         *)
(* The nodes in use are a forest (Forest): the nodes of one parent are a   *)
(* cycle of the arena (Cycle), which is stated without walking it: the     *)
(* pointers stay inside, they undo one another, and no part of the set is  *)
(* closed under them.  That a walk along the right pointers then visits    *)
(* each node once and comes round is a counting argument (RingOfCycle),    *)
(* and so the nodes the model reaches are those of the forest (ReachedIs). *)
(* What an operation does to the trees is shown once for any arena:        *)
(* PushForest, LinkForest and WithoutForest, the last by an induction over *)
(* the children that join the roots.                                       *)
(*                                                                         *)
(* The rest is about the pop under way, the only frame that is not a push: *)
(* what it has still to place (Pending) are roots, the buckets hold roots  *)
(* of the degree of their place (PopFits), and min either is a root it     *)
(* need not look at or will be replaced by one that is not greater         *)
(* (LeastFits).  The buckets below the size hold every root, since a       *)
(* degree is less than the number of nodes (ForestSize) and the size       *)
(* counts all but one of them at least (SizeFits): so the scan, which      *)
(* stops at the size, misses none.                                         *)
(***************************************************************************)
EXTENDS FibonacciHeap, FiniteSetTheorems, SequenceTheorems, WellFoundedInduction, TLAPS

NodeRec == [item : Items, degree : Nat, parent : Nat, child : Nat, left : Nat, right : Nat]
Arena == Seq(NodeRec)

(* The nodes of S follow one another in both directions, in one cycle.      *)
Closed(ns, S) == \A n \in S : ns[n].right \in S

Cycle(ns, S) ==
    /\ \A n \in S :
        /\ ns[n].right \in S /\ ns[ns[n].right].left = n
        /\ ns[n].left \in S /\ ns[ns[n].left].right = n
    /\ \A T \in SUBSET S : T # {} /\ Closed(ns, T) => T = S

(* The nodes of L whose parent is o; those of Null are the roots.           *)
Kids(ns, L, o) == {n \in L : ns[n].parent = o}

Heads(S, h) == IF h = Null THEN S = {} ELSE h \in S

(* The nodes of L are the trees under rt: every list a cycle, every degree  *)
(* the number of children, no child less than its parent, and a child of a  *)
(* degree below that of its parent, so that there is no way back up.        *)
Forest(ns, rt, L) ==
    /\ L \subseteq 1 .. Len(ns)
    /\ Heads(Kids(ns, L, Null), rt)
    /\ \A o \in L \cup {Null} : Cycle(ns, Kids(ns, L, o))
    /\ \A n \in L :
        /\ ns[n].parent \in L \cup {Null}
        /\ Heads(Kids(ns, L, n), ns[n].child)
        /\ ns[n].degree = Cardinality(Kids(ns, L, n))
        /\ ns[n].parent # Null =>
            /\ ns[n].degree < ns[ns[n].parent].degree
            /\ ns[ns[n].parent].item <= ns[n].item

-----------------------------------------------------------------------------
(* The frames of a push that compares and of a pop.                         *)
TieFrame == [at : {"tie"}, x : Nat, b : Nat]
PopFrame == [at : {"next", "bucket", "link", "look", "scan"}, z : Nat, todo : Seq(Nat),
             table : Seq(Nat), degree : Nat, x : Nat, b : Nat]

Tops(ns, L) == Kids(ns, L, Null)

(* A pop starts when nothing runs: it is the first frame.                   *)
Popping(fs) == fs # <<>> /\ fs[1].at # "tie"

(* The roots a pop has in its buckets, and all those it still looks after.  *)
Tabled(f) == Range(f.table) \ {Null}
Pending(f) == Range(f.todo) \cup Tabled(f) \cup IF f.at \in {"bucket", "link"} THEN {f.x} ELSE {}
Waiting(fs) == IF Popping(fs) THEN Pending(fs[1]) ELSE {}

(* A push compares a root the pop below it does not know of.                *)
FramesFit(fs, ns, L) ==
    /\ fs \in Seq(TieFrame \cup PopFrame)
    /\ \A i \in 1 .. Len(fs) :
        fs[i].at = "tie" => fs[i].x \in Tops(ns, L) \ Waiting(fs) /\ fs[i].b \in 1 .. Len(ns)
    /\ \A i \in 2 .. Len(fs) : fs[i].at = "tie"
    /\ Popping(fs) /\ Len(fs) > 1 => fs[1].at \in {"link", "scan"}

(* A pop has z cut off, knows roots only, each of them once, and each in    *)
(* the bucket of its degree.                                                *)
PopFits(f, ns, L) ==
    /\ f.z \in 1 .. Len(ns) /\ f.z \notin L
    /\ Pending(f) \subseteq Tops(ns, L)
    /\ \A i, j \in 1 .. Len(f.todo) : f.todo[i] = f.todo[j] => i = j
    /\ Range(f.todo) \cap Range(f.table) = {}
    /\ \A i \in 1 .. Len(f.table) : f.table[i] # Null => ns[f.table[i]].degree = i - 1
    /\ f.at \in {"bucket", "link"} =>
        f.x \notin Range(f.todo) \cup Range(f.table) /\ f.degree = ns[f.x].degree
    /\ f.at = "link" => f.degree < Len(f.table) /\ f.b = f.table[f.degree + 1] /\ f.b # Null
    /\ f.at \in {"look", "scan"} => f.todo = <<>>
    /\ f.at = "scan" =>
        /\ f.degree < Len(f.table) /\ f.x = f.table[f.degree + 1] /\ f.x # Null
        /\ f.b \in 1 .. Len(ns)

(* min is a root the pop need not come to, or one it has still to come to   *)
(* is not greater; in the scan, one of those in the buckets ahead.          *)
LeastFits(f, m, ns, L) ==
    /\ m \in L
    /\ f.at \notin {"look", "scan"} =>
        \/ m \in Tops(ns, L) \ Pending(f)
        \/ \E r \in Pending(f) : ns[r].item <= ns[m].item
    /\ f.at \in {"look", "scan"} =>
        \/ m \in Tops(ns, L)
        \/ \E i \in f.degree + 1 .. Len(f.table) :
              f.table[i] # Null /\ ns[f.table[i]].item <= ns[m].item
    /\ f.at = "scan" => m \in Tops(ns, L) \/ f.b = m

MinFits(fs, m, ns, L) ==
    IF Popping(fs) THEN LeastFits(fs[1], m, ns, L)
    ELSE m \in Tops(ns, L) \/ (m = Null /\ L = {})

(* The size counts the nodes except those whose push is under way or was    *)
(* cut short; a pop under way has not counted its node out.                 *)
SizeFits(sz, fs, ts, L) ==
    LET counted == sz + Len(fs) - (IF Popping(fs) THEN 2 ELSE 0)
    IN  /\ sz \in Nat /\ (Popping(fs) => sz > 0)
        /\ counted <= Cardinality(L)
        /\ Cardinality(L) <= counted + Len(ts)

(* With a pure comparator z was least, every root is looked after, and in   *)
(* the scan min is not greater than the roots of the buckets behind.        *)
PurePops(f, m, ns, L) ==
    /\ \A n \in L : ns[f.z].item <= ns[n].item
    /\ Tops(ns, L) \subseteq Pending(f)
    /\ f.at \in {"look", "scan"} =>
        \A r \in Tops(ns, L) : ns[m].item <= ns[r].item \/ f.degree <= ns[r].degree
    /\ f.at = "scan" => f.b = m

(* With a pure comparator min is least, the node being pushed aside.        *)
PureFits(fs, m, ns, L) ==
    /\ Len(fs) <= 1
    /\ Popping(fs) => PurePops(fs[1], m, ns, L)
    /\ ~Popping(fs) =>
        /\ \A n \in L :
            \/ ns[m].item <= ns[n].item
            \/ fs # <<>> /\ fs[1].x = n
        /\ fs # <<>> => fs[1].b = m

(* The comparators all this is about.                                       *)
Calm == comparator.calls \subseteq {"push"} /\ AtMostOnePushThrew

CalmInv ==
    /\ failures = {}
    /\ nodes \in Arena
    /\ Forest(nodes, root, Reached)
    /\ FramesFit(frames, nodes, Reached)
    /\ Popping(frames) => PopFits(frames[1], nodes, Reached)
    /\ MinFits(frames, min, nodes, Reached)
    /\ SizeFits(size, frames, throws, Reached)
    /\ Pure => PureFits(frames, min, nodes, Reached)

(* The inductive invariant.                                                 *)
Inv ==
    /\ comparator \in Comparators
    /\ throws \in Seq(Comparing) /\ Len(throws) <= comparator.throws
    /\ Calm => CalmInv
-----------------------------------------------------------------------------
(* Arenas *)

LEMMA ArenaFunction ==
    ASSUME NEW ns \in Arena
    PROVE  ns \in [1 .. Len(ns) -> NodeRec] /\ Len(ns) \in Nat
  BY DEF Arena

LEMMA FunctionArena ==
    ASSUME NEW k \in Nat, NEW ns \in [1 .. k -> NodeRec]
    PROVE  ns \in Arena /\ Len(ns) = k
  BY DEF Arena

Rights(ns, n, r) == [ns EXCEPT ![n].right = r]
Lefts(ns, n, l) == [ns EXCEPT ![n].left = l]

LEMMA RightsStays ==
    ASSUME NEW D, NEW ns \in [D -> NodeRec], NEW n \in D, NEW r \in Nat
    PROVE  Rights(ns, n, r) \in [D -> NodeRec]
  BY DEF NodeRec, Rights

LEMMA LeftsStays ==
    ASSUME NEW D, NEW ns \in [D -> NodeRec], NEW n \in D, NEW l \in Nat
    PROVE  Lefts(ns, n, l) \in [D -> NodeRec]
  BY DEF NodeRec, Lefts

LEMMA InsertAfterFacts ==
    ASSUME NEW ns \in Arena, NEW at \in 1 .. Len(ns), NEW n \in 1 .. Len(ns),
           at # n, ns[at].right \in 1 .. Len(ns), ns[at].right # n
    PROVE  LET out == InsertAfter(ns, at, n)
           IN  /\ out \in Arena /\ Len(out) = Len(ns)
               /\ \A m \in 1 .. Len(ns) :
                    /\ out[m].item = ns[m].item /\ out[m].degree = ns[m].degree
                    /\ out[m].parent = ns[m].parent /\ out[m].child = ns[m].child
                    /\ out[m].right = IF m = at THEN n
                                      ELSE IF m = n THEN ns[at].right ELSE ns[m].right
                    /\ out[m].left = IF m = ns[at].right THEN n
                                     ELSE IF m = n THEN at ELSE ns[m].left
<1> DEFINE out == InsertAfter(ns, at, n)
           k == Len(ns)
<1>1. ns \in [1 .. k -> NodeRec] /\ k \in Nat
  BY ArenaFunction
<1>2. at \in 1 .. k /\ n \in 1 .. k /\ ns[at].right \in 1 .. k /\ 1 .. k \subseteq Nat
  OBVIOUS
<1> HIDE DEF k
<1>3. out \in [1 .. k -> NodeRec]
  <2> DEFINE one == Rights(ns, n, ns[at].right)
             two == Lefts(one, n, at)
             three == Lefts(two, ns[at].right, n)
             four == Rights(three, at, n)
  <2>1. out = four
    BY DEF InsertAfter, Rights, Lefts
  <2>2. one \in [1 .. k -> NodeRec]
    BY <1>1, <1>2, RightsStays
  <2> HIDE DEF one
  <2>3. two \in [1 .. k -> NodeRec]
    BY <1>2, <2>2, LeftsStays
  <2> HIDE DEF two
  <2>4. three \in [1 .. k -> NodeRec]
    BY <1>2, <2>3, LeftsStays
  <2> HIDE DEF three
  <2>5. four \in [1 .. k -> NodeRec]
    BY <1>2, <2>4, RightsStays
  <2> QED BY <2>1, <2>5
<1>4. ASSUME NEW m \in 1 .. k
      PROVE  /\ out[m].item = ns[m].item /\ out[m].degree = ns[m].degree
             /\ out[m].parent = ns[m].parent /\ out[m].child = ns[m].child
             /\ out[m].right = IF m = at THEN n
                               ELSE IF m = n THEN ns[at].right ELSE ns[m].right
             /\ out[m].left = IF m = ns[at].right THEN n
                              ELSE IF m = n THEN at ELSE ns[m].left
  BY <1>1, <1>2 DEF NodeRec, InsertAfter
<1>5. out \in Arena /\ Len(out) = k
  BY <1>1, <1>3, FunctionArena
<1> QED BY <1>4, <1>5 DEF k

LEMMA RemoveFacts ==
    ASSUME NEW ns \in Arena, NEW rt, NEW n \in 1 .. Len(ns),
           ns[n].left \in 1 .. Len(ns), ns[n].right \in 1 .. Len(ns)
    PROVE  LET t == RemoveFromRoot([nodes |-> ns, root |-> rt], n)
               out == t.nodes
           IN  /\ t = [nodes |-> out, root |-> IF rt = n THEN ns[n].right ELSE rt]
               /\ out \in Arena /\ Len(out) = Len(ns)
               /\ \A m \in 1 .. Len(ns) :
                    /\ out[m].item = ns[m].item /\ out[m].degree = ns[m].degree
                    /\ out[m].parent = ns[m].parent /\ out[m].child = ns[m].child
                    /\ out[m].right = IF m = ns[n].left THEN ns[n].right ELSE ns[m].right
                    /\ out[m].left = IF m = ns[n].right THEN ns[n].left ELSE ns[m].left
<1> DEFINE out == [ns EXCEPT ![ns[n].left].right = ns[n].right, ![ns[n].right].left = ns[n].left]
           k == Len(ns)
<1>0. RemoveFromRoot([nodes |-> ns, root |-> rt], n)
        = [nodes |-> out, root |-> IF rt = n THEN ns[n].right ELSE rt]
  BY DEF RemoveFromRoot
<1>1. ns \in [1 .. k -> NodeRec] /\ k \in Nat
  BY ArenaFunction
<1>2. n \in 1 .. k /\ ns[n].left \in 1 .. k /\ ns[n].right \in 1 .. k /\ 1 .. k \subseteq Nat
  OBVIOUS
<1> HIDE DEF k
<1>3. out \in [1 .. k -> NodeRec]
  <2> DEFINE one == Rights(ns, ns[n].left, ns[n].right)
  <2>1. out = Lefts(one, ns[n].right, ns[n].left)
    BY DEF Rights, Lefts
  <2>2. one \in [1 .. k -> NodeRec]
    BY <1>1, <1>2, RightsStays
  <2> HIDE DEF one
  <2>3. Lefts(one, ns[n].right, ns[n].left) \in [1 .. k -> NodeRec]
    BY <1>2, <2>2, LeftsStays
  <2> QED BY <2>1, <2>3
<1>4. ASSUME NEW m \in 1 .. k
      PROVE  /\ out[m].item = ns[m].item /\ out[m].degree = ns[m].degree
             /\ out[m].parent = ns[m].parent /\ out[m].child = ns[m].child
             /\ out[m].right = IF m = ns[n].left THEN ns[n].right ELSE ns[m].right
             /\ out[m].left = IF m = ns[n].right THEN ns[n].left ELSE ns[m].left
  BY <1>1, <1>2 DEF NodeRec
<1>5. out \in Arena /\ Len(out) = k
  BY <1>1, <1>3, FunctionArena
<1> HIDE DEF out
<1>6. RemoveFromRoot([nodes |-> ns, root |-> rt], n).nodes = out
  BY <1>0
<1> QED BY <1>0, <1>4, <1>5, <1>6 DEF k

-----------------------------------------------------------------------------
(* Rings *)

LEMMA CycleFrame ==
    ASSUME NEW ns, NEW out, NEW S, Cycle(ns, S),
           \A m \in S : out[m].right = ns[m].right /\ out[m].left = ns[m].left
    PROVE  Cycle(out, S)
<1>1. \A n \in S : /\ ns[n].right \in S /\ ns[ns[n].right].left = n
                   /\ ns[n].left \in S /\ ns[ns[n].left].right = n
  BY DEF Cycle
<1>2. ASSUME NEW T \in SUBSET S, T # {}, Closed(out, T)
      PROVE  T = S
  <2>1. Closed(ns, T)
    BY <1>2 DEF Closed
  <2> QED BY <1>2, <2>1 DEF Cycle
<1> QED BY <1>1, <1>2 DEF Cycle

LEMMA CycleEmpty ==
    ASSUME NEW ns
    PROVE  Cycle(ns, {})
  BY DEF Cycle

LEMMA CycleSingle ==
    ASSUME NEW ns, NEW n, ns[n].right = n, ns[n].left = n
    PROVE  Cycle(ns, {n})
  BY DEF Cycle

LEMMA CycleInsert ==
    ASSUME NEW ns, NEW out, NEW S, NEW at \in S, NEW n, n \notin S, Cycle(ns, S),
           \A m \in S \cup {n} :
               /\ out[m].right = IF m = at THEN n
                                 ELSE IF m = n THEN ns[at].right ELSE ns[m].right
               /\ out[m].left = IF m = ns[at].right THEN n
                                ELSE IF m = n THEN at ELSE ns[m].left
    PROVE  Cycle(out, S \cup {n})
<1>1. \A m \in S : /\ ns[m].right \in S /\ ns[ns[m].right].left = m
                   /\ ns[m].left \in S /\ ns[ns[m].left].right = m
  BY DEF Cycle
<1>2. ASSUME NEW m \in S \cup {n}
      PROVE  /\ out[m].right \in S \cup {n} /\ out[out[m].right].left = m
             /\ out[m].left \in S \cup {n} /\ out[out[m].left].right = m
  <2>1. CASE m = n
    BY <1>1, <2>1
  <2>2. CASE m \in S
    BY <1>1, <2>2
  <2> QED BY <1>2, <2>1, <2>2
<1>3. ASSUME NEW T \in SUBSET (S \cup {n}), T # {}, Closed(out, T)
      PROVE  T = S \cup {n}
  <2> DEFINE U == T \ {n}
  <2>1. U # {}
    <3>1. PICK m \in T : TRUE
      BY <1>3
    <3>2. CASE m = n
      BY <1>1, <1>3, <3>1, <3>2 DEF Closed
    <3> QED BY <3>1, <3>2
  <2>2. Closed(ns, U)
    <3> SUFFICES ASSUME NEW m \in U PROVE ns[m].right \in U
      BY DEF Closed
    <3>1. m \in S /\ m \in T /\ ns[m].right \in S /\ ns[m].right # n
      BY <1>1, <1>3
    <3>2. CASE m = at
      <4>1. n \in T
        BY <1>3, <3>1, <3>2 DEF Closed
      <4>2. out[n].right = ns[at].right
        OBVIOUS
      <4> QED BY <1>3, <3>1, <3>2, <4>1, <4>2 DEF Closed
    <3>3. CASE m # at
      BY <1>3, <3>1, <3>3 DEF Closed
    <3> QED BY <3>2, <3>3
  <2>3. U = S
    BY <1>3, <2>1, <2>2 DEF Cycle
  <2>4. n \in T
    BY <1>3, <2>3 DEF Closed
  <2> QED BY <1>3, <2>3, <2>4
<1> QED BY <1>2, <1>3 DEF Cycle

LEMMA CycleRemove ==
    ASSUME NEW ns, NEW out, NEW S, NEW n \in S, S # {n}, Cycle(ns, S),
           \A m \in S :
               /\ out[m].right = IF m = ns[n].left THEN ns[n].right ELSE ns[m].right
               /\ out[m].left = IF m = ns[n].right THEN ns[n].left ELSE ns[m].left
    PROVE  /\ Cycle(out, S \ {n})
           /\ ns[n].right \in S \ {n} /\ ns[n].left \in S \ {n}
           /\ out[n].right = ns[n].right
<1>1. \A m \in S : /\ ns[m].right \in S /\ ns[ns[m].right].left = m
                   /\ ns[m].left \in S /\ ns[ns[m].left].right = m
  BY DEF Cycle
<1>2. ns[n].right # n
  <2> SUFFICES ASSUME ns[n].right = n PROVE FALSE
    OBVIOUS
  <2>1. Closed(ns, {n})
    BY DEF Closed
  <2> QED BY <2>1 DEF Cycle
<1>3. ns[n].right \in S \ {n} /\ ns[n].left \in S \ {n}
  BY <1>1, <1>2
<1>4. ASSUME NEW m \in S \ {n}
      PROVE  /\ out[m].right \in S \ {n} /\ out[out[m].right].left = m
             /\ out[m].left \in S \ {n} /\ out[out[m].left].right = m
  <2>1. /\ ns[m].right \in S /\ ns[ns[m].right].left = m
        /\ ns[m].left \in S /\ ns[ns[m].left].right = m
    BY <1>1
  <2>2. out[m].right \in S \ {n} /\ out[out[m].right].left = m
    <3>1. CASE m = ns[n].left
      BY <1>1, <1>3, <3>1
    <3>2. CASE m # ns[n].left
      <4>1. out[m].right = ns[m].right /\ ns[m].right # n
        BY <1>1, <3>2, <2>1
      <4>2. ns[m].right # ns[n].right
        BY <1>1, <2>1
      <4> QED BY <2>1, <4>1, <4>2
    <3> QED BY <3>1, <3>2
  <2>3. out[m].left \in S \ {n} /\ out[out[m].left].right = m
    <3>1. CASE m = ns[n].right
      BY <1>1, <1>3, <3>1
    <3>2. CASE m # ns[n].right
      <4>1. out[m].left = ns[m].left /\ ns[m].left # n
        BY <1>1, <3>2, <2>1
      <4>2. ns[m].left # ns[n].left
        BY <1>1, <2>1
      <4> QED BY <2>1, <4>1, <4>2
    <3> QED BY <3>1, <3>2
  <2> QED BY <2>2, <2>3
<1>5. ASSUME NEW T \in SUBSET (S \ {n}), T # {}, Closed(out, T)
      PROVE  T = S \ {n}
  <2>1. CASE ns[n].left \in T
    <3> DEFINE U == T \cup {n}
    <3>1. ns[n].right \in T
      BY <1>1, <1>5, <2>1 DEF Closed
    <3>2. Closed(ns, U)
      <4> SUFFICES ASSUME NEW m \in U PROVE ns[m].right \in U
        BY DEF Closed
      <4>1. CASE m = n \/ m = ns[n].left
        BY <1>1, <3>1, <4>1
      <4>2. CASE m # n /\ m # ns[n].left
        BY <1>5, <4>2 DEF Closed
      <4> QED BY <4>1, <4>2
    <3>3. U = S
      <4>1. U \in SUBSET S /\ U # {}
        BY <1>5
      <4> HIDE DEF U
      <4> QED BY <3>2, <4>1 DEF Cycle
    <3> QED BY <1>5, <3>3
  <2>2. CASE ns[n].left \notin T
    <3>1. Closed(ns, T)
      BY <1>5, <2>2 DEF Closed
    <3>2. T = S
      BY <1>5, <3>1 DEF Cycle
    <3> QED BY <1>5, <3>2
  <2> QED BY <2>1, <2>2
<1>6. out[n].right = ns[n].right
  BY <1>3
<1> QED BY <1>3, <1>4, <1>5, <1>6 DEF Cycle

-----------------------------------------------------------------------------
(* Walks *)

LEMMA LeastMember ==
    ASSUME NEW T \in SUBSET Nat, T # {}
    PROVE  \E i \in T : \A j \in T : i <= j
<1>1. IsWellFoundedOn(OpToRel(<, Nat), Nat)
  BY NatLessThanWellFounded
<1>2. PICK i \in T : \A j \in T : <<j, i>> \notin OpToRel(<, Nat)
  BY <1>1, WFMin
<1>3. \A j \in T : ~(j < i)
  BY <1>2, Zenon DEF OpToRel
<1> QED BY <1>3

LEMMA UpToSize ==
    ASSUME NEW k \in Nat
    PROVE  IsFiniteSet(1 .. k) /\ Cardinality(1 .. k) = k
<1> DEFINE one == 1
<1>1. one \in Int /\ one = 1
  OBVIOUS
<1> HIDE DEF one
<1>2. IsFiniteSet(one .. k) /\ Cardinality(one .. k) = IF one > k THEN 0 ELSE k - one + 1
  BY <1>1, FS_Interval
<1> QED BY <1>1, <1>2

(* The walk of FibonacciHeap, as a formula the walks that exist satisfy.    *)
IsWalk(ns, head, k, at) == at = [i \in 0 .. k |-> IF i = 0 THEN head ELSE ns[at[i - 1]].right]

LEMMA WalkExists ==
    ASSUME NEW ns, NEW head, NEW t \in Nat
    PROVE  \E f : IsWalk(ns, head, t, f)
<1> DEFINE Missing == {n \in Nat : ~\E f : IsWalk(ns, head, n, f)}
<1> SUFFICES ASSUME Missing # {} PROVE FALSE
  OBVIOUS
<1>1. PICK k \in Missing : \A j \in Missing : k <= j
  BY LeastMember
<1>2. k \in Nat /\ ~\E f : IsWalk(ns, head, k, f)
  BY <1>1
<1>3. CASE k = 0
  <2> DEFINE f == [n \in 0 .. 0 |-> head]
  <2>1. f = [n \in 0 .. 0 |-> IF n = 0 THEN head ELSE ns[f[n - 1]].right]
    OBVIOUS
  <2> QED BY <1>2, <1>3, <2>1 DEF IsWalk
<1>4. CASE k # 0
  <2> DEFINE j == k - 1
  <2>1. j \in Nat /\ k = j + 1 /\ ~(k <= j)
    BY <1>2, <1>4
  <2> HIDE DEF j
  <2>2. j \notin Missing
    BY <1>1, <2>1
  <2>3. PICK f : IsWalk(ns, head, j, f)
    BY <2>1, <2>2
  <2> DEFINE g == [n \in 0 .. k |-> IF n = k THEN ns[f[j]].right ELSE f[n]]
  <2>4. \A n \in 0 .. j : f[n] = IF n = 0 THEN head ELSE ns[f[n - 1]].right
    BY <2>3 DEF IsWalk
  <2>5. ASSUME NEW n \in 0 .. k
        PROVE  g[n] = IF n = 0 THEN head ELSE ns[g[n - 1]].right
    <3>1. CASE n = k
      <4>1. n # 0 /\ n - 1 = j /\ j \in 0 .. k /\ j # k
        BY <2>1, <3>1
      <4>2. g[n] = ns[f[j]].right /\ g[n - 1] = f[j]
        BY <3>1, <4>1
      <4> QED BY <4>1, <4>2
    <3>2. CASE n # k /\ n # 0
      <4>1. n \in 0 .. j /\ n - 1 \in 0 .. k /\ n - 1 # k
        BY <2>1, <3>2
      <4>2. g[n] = f[n] /\ g[n - 1] = f[n - 1]
        BY <3>2, <4>1
      <4> QED BY <2>4, <3>2, <4>1, <4>2
    <3>3. CASE n = 0
      <4>1. 0 \in 0 .. j /\ 0 # k /\ 0 \in 0 .. k
        BY <2>1
      <4>2. f[0] = head
        BY <2>4, <4>1
      <4> QED BY <3>3, <4>1, <4>2
    <3> QED BY <3>1, <3>2, <3>3
  <2>6. g = [n \in 0 .. k |-> g[n]]
    OBVIOUS
  <2> HIDE DEF g
  <2>7. g = [n \in 0 .. k |-> IF n = 0 THEN head ELSE ns[g[n - 1]].right]
    BY <2>5, <2>6
  <2> QED BY <1>2, <2>7 DEF IsWalk
<1> QED BY <1>3, <1>4

LEMMA WalkSteps ==
    ASSUME NEW ns, NEW head, Len(ns) \in Nat
    PROVE  /\ Walk(ns, head)[0] = head
           /\ \A i \in 1 .. Len(ns) : Walk(ns, head)[i] = ns[Walk(ns, head)[i - 1]].right
<1> DEFINE at == CHOOSE f : IsWalk(ns, head, Len(ns), f)
<1>1. IsWalk(ns, head, Len(ns), at)
  BY WalkExists
<1>2. Walk(ns, head) = at
  BY DEF Walk, IsWalk
<1> HIDE DEF at
<1>3. at[0] = head
  BY <1>1 DEF IsWalk
<1>4. ASSUME NEW i \in 1 .. Len(ns)
      PROVE  at[i] = ns[at[i - 1]].right
  <2>1. i \in 0 .. Len(ns) /\ i # 0
    OBVIOUS
  <2> QED BY <1>1, <2>1 DEF IsWalk
<1> QED BY <1>2, <1>3, <1>4

LEMMA WalkInCycle ==
    ASSUME NEW ns \in Arena, NEW S \in SUBSET (1 .. Len(ns)), Cycle(ns, S), NEW head \in S
    PROVE  LET at == Walk(ns, head)
           IN  /\ \A i \in 0 .. Len(ns) : at[i] \in S
               /\ \A i \in 0 .. Len(ns) : \A j \in 1 .. Len(ns) :
                      i < j /\ at[i] = at[j] => at[j - i] = head
<1> DEFINE at == Walk(ns, head)
           k == Len(ns)
<1>0. k \in Nat
  BY ArenaFunction
<1>1. at[0] = head /\ \A i \in 1 .. k : at[i] = ns[at[i - 1]].right
  BY <1>0, WalkSteps
<1>2. \A n \in S : ns[n].right \in S /\ ns[ns[n].right].left = n
  BY DEF Cycle
<1> HIDE DEF at, k
<1>3. ASSUME NEW i \in 0 .. k, at[i] \notin S
      PROVE  FALSE
  <2> DEFINE Wrong == {n \in 0 .. k : at[n] \notin S}
  <2>1. Wrong \in SUBSET Nat /\ Wrong # {}
    BY <1>0, <1>3
  <2>2. PICK m \in Wrong : \A j \in Wrong : m <= j
    BY <2>1, LeastMember
  <2>3. m \in 0 .. k /\ m # 0 /\ at[m] \notin S
    BY <1>1, <2>2
  <2>4. m - 1 \in 0 .. k /\ ~(m <= m - 1) /\ m \in 1 .. k
    BY <1>0, <2>3
  <2>5. at[m - 1] \in S
    BY <2>2, <2>4
  <2> QED BY <1>1, <1>2, <2>3, <2>4, <2>5
<1>4. ASSUME NEW i \in 0 .. k, NEW j \in 1 .. k, i < j, at[i] = at[j], at[j - i] # head
      PROVE  FALSE
  <2> DEFINE Wrong == {n \in 0 .. k : \E m \in 1 .. k : n < m /\ at[n] = at[m] /\ at[m - n] # head}
  <2>1. Wrong \in SUBSET Nat /\ Wrong # {}
    BY <1>0, <1>4
  <2>2. PICK n \in Wrong : \A u \in Wrong : n <= u
    BY <2>1, LeastMember
  <2>3. PICK m \in 1 .. k : n < m /\ at[n] = at[m] /\ at[m - n] # head
    BY <2>2
  <2>4. n \in 0 .. k
    BY <2>2
  <2>5. n # 0
    BY <1>0, <1>1, <2>3
  <2>6. /\ n \in 1 .. k /\ n - 1 \in 0 .. k /\ m - 1 \in 1 .. k /\ n - 1 < m - 1
        /\ (m - 1) - (n - 1) = m - n /\ ~(n <= n - 1) /\ m - 1 \in 0 .. k
    BY <1>0, <2>3, <2>4, <2>5
  <2>7. at[n - 1] \in S /\ at[m - 1] \in S
    BY <1>3, <2>6
  <2>8. at[n - 1] = at[m - 1]
    <3>1. at[n] = ns[at[n - 1]].right /\ at[m] = ns[at[m - 1]].right
      BY <1>1, <2>6
    <3>2. ns[ns[at[n - 1]].right].left = at[n - 1] /\ ns[ns[at[m - 1]].right].left = at[m - 1]
      BY <1>2, <2>7
    <3> QED BY <2>3, <3>1, <3>2
  <2>9. n - 1 \in Wrong
    BY <2>3, <2>6, <2>8
  <2> QED BY <2>2, <2>6, <2>9
<1> QED BY <1>3, <1>4 DEF at, k

LEMMA RingOfCycle ==
    ASSUME NEW ns \in Arena, NEW S \in SUBSET (1 .. Len(ns)), Cycle(ns, S), NEW head \in S
    PROVE  /\ ComesRound(ns, head)
           /\ Ring(ns, head) \in Seq(S)
           /\ Range(Ring(ns, head)) = S
           /\ \A i, j \in 1 .. Len(Ring(ns, head)) :
                 Ring(ns, head)[i] = Ring(ns, head)[j] => i = j
<1> DEFINE at == Walk(ns, head)
           k == Len(ns)
<1>0. k \in Nat
  BY ArenaFunction
<1>1. at[0] = head /\ \A i \in 1 .. k : at[i] = ns[at[i - 1]].right
  BY <1>0, WalkSteps
<1>2. /\ \A i \in 0 .. k : at[i] \in S
      /\ \A i \in 0 .. k : \A j \in 1 .. k : i < j /\ at[i] = at[j] => at[j - i] = head
  BY WalkInCycle
<1>3. \E i \in 1 .. k : at[i] = head
  <2>1. IsFiniteSet(0 .. k) /\ Cardinality(0 .. k) = k + 1
    BY <1>0, FS_Interval
  <2>2. IsFiniteSet(1 .. k) /\ Cardinality(1 .. k) = k
    BY <1>0, UpToSize
  <2> DEFINE f == [i \in 0 .. k |-> at[i]]
  <2>3. f \in [0 .. k -> 1 .. k]
    BY <1>2
  <2>4. PICK i, j \in 0 .. k : i # j /\ f[i] = f[j]
    <3>1. Cardinality(1 .. k) < Cardinality(0 .. k)
      BY <1>0, <2>1, <2>2
    <3> HIDE DEF f
    <3> QED BY <2>1, <2>2, <2>3, <3>1, FS_PigeonHole
  <2>5. at[i] = at[j]
    BY <2>4
  <2>6. CASE i < j
    <3>1. j \in 1 .. k /\ j - i \in 1 .. k
      BY <1>0, <2>6
    <3> QED BY <1>2, <2>5, <2>6, <3>1
  <2>7. CASE j < i
    <3>1. i \in 1 .. k /\ i - j \in 1 .. k
      BY <1>0, <2>7
    <3> QED BY <1>2, <2>5, <2>7, <3>1
  <2> QED BY <1>0, <2>4, <2>6, <2>7
<1>4. ComesRound(ns, head)
  BY <1>3 DEF ComesRound
<1> DEFINE n == CHOOSE i \in 1 .. k : at[i] = head /\ \A j \in 1 .. i - 1 : at[j] # head
<1>5. Ring(ns, head) = [i \in 1 .. n |-> at[i - 1]]
  BY DEF Ring
<1> HIDE DEF at
<1>6. n \in 1 .. k /\ at[n] = head /\ \A j \in 1 .. n - 1 : at[j] # head
  <2> DEFINE Rounds == {i \in 1 .. k : at[i] = head}
  <2>1. Rounds \in SUBSET Nat /\ Rounds # {}
    BY <1>0, <1>3
  <2>2. PICK m \in Rounds : \A j \in Rounds : m <= j
    BY <2>1, LeastMember
  <2>3. m \in 1 .. k /\ at[m] = head
    BY <2>2
  <2>4. ASSUME NEW j \in 1 .. m - 1 PROVE at[j] # head
    <3>1. j \in 1 .. k /\ ~(m <= j)
      BY <1>0, <2>3
    <3> QED BY <2>2, <3>1
  <2> QED BY <2>3, <2>4
<1> HIDE DEF n
<1> DEFINE s == [i \in 1 .. n |-> at[i - 1]]
<1>7. s \in Seq(S) /\ Len(s) = n
  <2>1. \A i \in 1 .. n : i - 1 \in 0 .. k
    BY <1>0, <1>6
  <2>2. s \in [1 .. n -> S]
    BY <1>2, <2>1
  <2>3. n \in Nat
    BY <1>6
  <2> HIDE DEF s
  <2> QED BY <2>2, <2>3
<1>8. DOMAIN s = 1 .. n /\ \A i \in 1 .. n : s[i] = at[i - 1]
  OBVIOUS
<1> HIDE DEF s
<1>9. Range(s) = S
  <2>1. Range(s) \in SUBSET S
    BY <1>7 DEF Range
  <2>2. Range(s) # {}
    <3>1. 1 \in DOMAIN s
      BY <1>6, <1>8
    <3> QED BY <3>1 DEF Range
  <2>3. Closed(ns, Range(s))
    <3> SUFFICES ASSUME NEW i \in 1 .. n PROVE ns[s[i]].right \in Range(s)
      BY <1>8 DEF Closed, Range
    <3>1. i \in 1 .. k /\ s[i] = at[i - 1] /\ ns[s[i]].right = at[i]
      BY <1>0, <1>1, <1>6, <1>8
    <3>2. CASE i = n
      <4>1. 1 \in 1 .. n /\ s[1] = head
        BY <1>1, <1>6, <1>8
      <4> QED BY <1>6, <1>8, <3>1, <3>2, <4>1 DEF Range
    <3>3. CASE i # n
      <4>1. i + 1 \in 1 .. n /\ s[i + 1] = at[i]
        BY <1>0, <1>6, <1>8, <3>3
      <4> QED BY <1>8, <3>1, <4>1 DEF Range
    <3> QED BY <3>2, <3>3
  <2> QED BY <2>1, <2>2, <2>3 DEF Cycle
<1>10. ASSUME NEW i \in 1 .. n, NEW j \in 1 .. n, s[i] = s[j], i < j
       PROVE  FALSE
  <2>1. /\ i - 1 \in 0 .. k /\ j - 1 \in 1 .. k /\ i - 1 < j - 1 /\ at[i - 1] = at[j - 1]
        /\ (j - 1) - (i - 1) \in 1 .. n - 1
    BY <1>0, <1>6, <1>8, <1>10
  <2> QED BY <1>2, <1>6, <2>1
<1>11. \A i, j \in 1 .. n : s[i] = s[j] => i = j
  BY <1>6, <1>10
<1>12. Ring(ns, head) = s
  BY <1>5 DEF s
<1> QED BY <1>4, <1>7, <1>9, <1>11, <1>12

-----------------------------------------------------------------------------
(* Forests *)

LEMMA ForestSize ==
    ASSUME NEW ns \in Arena, NEW rt, NEW L, Forest(ns, rt, L)
    PROVE  /\ IsFiniteSet(L) /\ Cardinality(L) \in Nat /\ Cardinality(L) <= Len(ns)
           /\ \A n \in L : ns[n].degree \in Nat /\ ns[n].degree < Cardinality(L)
<1> DEFINE k == Len(ns)
           D == 1 .. k
<1>1. k \in Nat /\ L \in SUBSET D
  BY ArenaFunction DEF Forest
<1>2. IsFiniteSet(D) /\ Cardinality(D) = k
  BY <1>1, UpToSize
<1> HIDE DEF k, D
<1>3. IsFiniteSet(L) /\ Cardinality(L) \in Nat /\ Cardinality(L) <= k
  BY <1>1, <1>2, FS_Subset, FS_CardinalityType
<1>4. ASSUME NEW n \in L
      PROVE  ns[n].degree \in Nat /\ ns[n].degree < Cardinality(L)
  <2>1. Kids(ns, L, n) \in SUBSET (L \ {n})
    <3>1. ns[n].parent # n
      <4>0. ns[n].degree \in Nat /\ n # Null
        BY <1>1, ArenaFunction DEF NodeRec, Null, D, k
      <4>1. ns[n].parent # Null => ns[n].degree < ns[ns[n].parent].degree
        BY DEF Forest
      <4> QED BY <4>0, <4>1
    <3> QED BY <3>1 DEF Kids
  <2>2. IsFiniteSet(L \ {n}) /\ Cardinality(L \ {n}) = Cardinality(L) - 1
    BY <1>3, FS_RemoveElement
  <2>3. IsFiniteSet(Kids(ns, L, n)) /\ Cardinality(Kids(ns, L, n)) <= Cardinality(L \ {n})
    BY <2>1, <2>2, FS_Subset
  <2>4. Cardinality(Kids(ns, L, n)) \in Nat
    BY <2>3, FS_CardinalityType
  <2>5. ns[n].degree = Cardinality(Kids(ns, L, n))
    BY DEF Forest
  <2> QED BY <1>3, <2>2, <2>3, <2>4, <2>5
<1> QED BY <1>3, <1>4 DEF k

Listed(ns, head) == IF head = Null THEN {} ELSE Range(Ring(ns, head))

LEMMA ForestLists ==
    ASSUME NEW ns \in Arena, NEW rt, NEW L, Forest(ns, rt, L)
    PROVE  /\ Listed(ns, rt) = Kids(ns, L, Null)
           /\ \A n \in L : Listed(ns, ns[n].child) = Kids(ns, L, n)
<1>1. L \in SUBSET (1 .. Len(ns))
  BY DEF Forest
<1>2. ASSUME NEW o \in L \cup {Null}, NEW head, Heads(Kids(ns, L, o), head)
      PROVE  Listed(ns, head) = Kids(ns, L, o)
  <2>1. Kids(ns, L, o) \in SUBSET (1 .. Len(ns)) /\ Cycle(ns, Kids(ns, L, o))
    BY <1>1 DEF Kids, Forest
  <2>2. CASE head = Null
    BY <1>2, <2>2 DEF Heads, Listed
  <2>3. CASE head # Null
    <3>1. head \in Kids(ns, L, o)
      BY <1>2, <2>3 DEF Heads
    <3>2. Range(Ring(ns, head)) = Kids(ns, L, o)
      BY <2>1, <3>1, RingOfCycle
    <3> QED BY <2>3, <3>2 DEF Listed
  <2> QED BY <2>2, <2>3
<1>3. Heads(Kids(ns, L, Null), rt) /\ \A n \in L : Heads(Kids(ns, L, n), ns[n].child)
  BY DEF Forest
<1> QED BY <1>2, <1>3

(* The levels of the trees, as Reached goes down them.                      *)
Spread(ns, rt, k, f) ==
    f = [d \in 0 .. k |->
            IF d = 0 THEN Listed(ns, rt)
            ELSE f[d - 1] \cup UNION {Listed(ns, ns[n].child) : n \in f[d - 1]}]

LEMMA SpreadExists ==
    ASSUME NEW ns, NEW rt, NEW t \in Nat
    PROVE  \E f : Spread(ns, rt, t, f)
<1> DEFINE Missing == {n \in Nat : ~\E f : Spread(ns, rt, n, f)}
           Step(R) == R \cup UNION {Listed(ns, ns[n].child) : n \in R}
<1> SUFFICES ASSUME Missing # {} PROVE FALSE
  OBVIOUS
<1>1. PICK k \in Missing : \A j \in Missing : k <= j
  BY LeastMember
<1>2. k \in Nat /\ ~\E f : Spread(ns, rt, k, f)
  BY <1>1
<1>3. CASE k = 0
  <2> DEFINE f == [d \in 0 .. 0 |-> Listed(ns, rt)]
  <2>1. f = [d \in 0 .. 0 |-> IF d = 0 THEN Listed(ns, rt)
                              ELSE f[d - 1] \cup UNION {Listed(ns, ns[n].child) : n \in f[d - 1]}]
    OBVIOUS
  <2> QED BY <1>2, <1>3, <2>1 DEF Spread
<1>4. CASE k # 0
  <2> DEFINE j == k - 1
  <2>1. j \in Nat /\ k = j + 1 /\ ~(k <= j)
    BY <1>2, <1>4
  <2> HIDE DEF j
  <2>2. j \notin Missing
    BY <1>1, <2>1
  <2>3. PICK f : Spread(ns, rt, j, f)
    BY <2>1, <2>2
  <2> DEFINE g == [d \in 0 .. k |-> IF d = k THEN Step(f[j]) ELSE f[d]]
  <2>4. \A d \in 0 .. j : f[d] = IF d = 0 THEN Listed(ns, rt) ELSE Step(f[d - 1])
    BY <2>3 DEF Spread
  <2> HIDE DEF Step
  <2>5. ASSUME NEW d \in 0 .. k
        PROVE  g[d] = IF d = 0 THEN Listed(ns, rt) ELSE Step(g[d - 1])
    <3>1. CASE d = k
      <4>1. d # 0 /\ d - 1 = j /\ j \in 0 .. k /\ j # k
        BY <2>1, <3>1
      <4>2. g[d] = Step(f[j]) /\ g[d - 1] = f[j]
        BY <3>1, <4>1
      <4> QED BY <4>1, <4>2
    <3>2. CASE d # k /\ d # 0
      <4>1. d \in 0 .. j /\ d - 1 \in 0 .. k /\ d - 1 # k
        BY <2>1, <3>2
      <4>2. g[d] = f[d] /\ g[d - 1] = f[d - 1]
        BY <3>2, <4>1
      <4> QED BY <2>4, <3>2, <4>1, <4>2
    <3>3. CASE d = 0
      <4>1. 0 \in 0 .. j /\ 0 # k /\ 0 \in 0 .. k
        BY <2>1
      <4>2. f[0] = Listed(ns, rt)
        BY <2>4, <4>1
      <4> QED BY <3>3, <4>1, <4>2
    <3> QED BY <3>1, <3>2, <3>3
  <2>6. g = [d \in 0 .. k |-> g[d]]
    OBVIOUS
  <2> HIDE DEF g
  <2>7. g = [d \in 0 .. k |-> IF d = 0 THEN Listed(ns, rt) ELSE Step(g[d - 1])]
    BY <2>5, <2>6
  <2> QED BY <1>2, <2>7 DEF Spread, Step
<1> QED BY <1>3, <1>4

LEMMA ForestSpread ==
    ASSUME NEW ns \in Arena, NEW rt, NEW L, Forest(ns, rt, L),
           NEW f, Spread(ns, rt, Len(ns), f)
    PROVE  f[Len(ns)] = L
<1> DEFINE k == Len(ns)
<1>0. k \in Nat
  BY ArenaFunction
<1>1. /\ f[0] = Kids(ns, L, Null)
      /\ \A d \in 1 .. k : f[d] = f[d - 1] \cup UNION {Listed(ns, ns[n].child) : n \in f[d - 1]}
  <2>1. \A d \in 0 .. k : f[d] = IF d = 0 THEN Listed(ns, rt)
            ELSE f[d - 1] \cup UNION {Listed(ns, ns[n].child) : n \in f[d - 1]}
    BY DEF Spread
  <2>2. 0 \in 0 .. k /\ \A d \in 1 .. k : d \in 0 .. k /\ d # 0
    BY <1>0
  <2>3. f[0] = Listed(ns, rt)
    BY <2>1, <2>2
  <2> QED BY <2>1, <2>2, <2>3, ForestLists
<1>2. \A n \in L : Listed(ns, ns[n].child) = Kids(ns, L, n)
  BY ForestLists
<1>3. \A n \in L : ns[n].degree \in Nat /\ ns[n].degree < k
  <2>1. /\ Cardinality(L) \in Nat /\ Cardinality(L) <= k
        /\ \A n \in L : ns[n].degree \in Nat /\ ns[n].degree < Cardinality(L)
    BY ForestSize
  <2> QED BY <1>0, <2>1
<1>4. \A n \in L : ns[n].parent \in L \cup {Null}
                  /\ (ns[n].parent # Null => ns[n].degree < ns[ns[n].parent].degree)
  BY DEF Forest
<1> HIDE DEF k
<1>5. ASSUME NEW d \in 0 .. k, ~(f[d] \subseteq L)
      PROVE  FALSE
  <2> DEFINE Wrong == {e \in 0 .. k : ~(f[e] \subseteq L)}
  <2>1. Wrong \in SUBSET Nat /\ Wrong # {}
    BY <1>5
  <2>2. PICK e \in Wrong : \A c \in Wrong : e <= c
    BY <2>1, LeastMember
  <2>3. e \in 0 .. k /\ ~(f[e] \subseteq L)
    BY <2>2
  <2>4. e # 0
    BY <1>1, <2>3 DEF Kids
  <2>5. e \in 1 .. k /\ e - 1 \in 0 .. k /\ ~(e <= e - 1)
    BY <1>0, <2>3, <2>4
  <2>6. f[e - 1] \subseteq L
    BY <2>2, <2>5
  <2>7. f[e] = f[e - 1] \cup UNION {Listed(ns, ns[n].child) : n \in f[e - 1]}
    BY <1>1, <2>5
  <2>8. \A n \in f[e - 1] : Listed(ns, ns[n].child) \subseteq L
    BY <1>2, <2>6 DEF Kids
  <2> QED BY <2>3, <2>6, <2>7, <2>8
<1>6. ASSUME NEW d \in 0 .. k, NEW n \in L, k - d <= ns[n].degree, n \notin f[d]
      PROVE  FALSE
  <2> DEFINE Wrong == {e \in 0 .. k : \E m \in L : k - e <= ns[m].degree /\ m \notin f[e]}
  <2>1. Wrong \in SUBSET Nat /\ Wrong # {}
    BY <1>6
  <2>2. PICK e \in Wrong : \A c \in Wrong : e <= c
    BY <2>1, LeastMember
  <2>3. PICK m \in L : k - e <= ns[m].degree /\ m \notin f[e]
    BY <2>2
  <2>4. e \in 0 .. k
    BY <2>2
  <2>5. ns[m].degree \in Nat /\ ns[m].degree < k
    BY <1>3
  <2>6. e \in 1 .. k /\ e - 1 \in 0 .. k /\ ~(e <= e - 1)
    BY <1>0, <2>3, <2>4, <2>5
  <2>7. f[e] = f[e - 1] \cup UNION {Listed(ns, ns[u].child) : u \in f[e - 1]}
    BY <1>1, <2>6
  <2>8. \A u \in L : k - (e - 1) <= ns[u].degree => u \in f[e - 1]
    BY <2>2, <2>6
  <2>9. CASE ns[m].parent = Null
    <3>1. m \in f[0]
      BY <1>1, <2>9 DEF Kids
    <3> DEFINE Later == {c \in 0 .. k : m \notin f[c]}
    <3>2. Later \in SUBSET Nat /\ Later # {}
      BY <2>3, <2>4
    <3>3. PICK c \in Later : \A b \in Later : c <= b
      BY <3>2, LeastMember
    <3>4. c \in 0 .. k /\ m \notin f[c] /\ c # 0
      BY <3>1, <3>3
    <3>5. c \in 1 .. k /\ c - 1 \in 0 .. k /\ ~(c <= c - 1)
      BY <1>0, <3>4
    <3>6. m \in f[c - 1]
      BY <3>3, <3>5
    <3> QED BY <1>1, <3>4, <3>5, <3>6
  <2>10. CASE ns[m].parent # Null
    <3> DEFINE p == ns[m].parent
    <3>1. p \in L /\ ns[m].degree < ns[p].degree /\ ns[p].degree \in Nat
      BY <1>3, <1>4, <2>10
    <3> HIDE DEF p
    <3>2. p \in f[e - 1]
      BY <1>0, <2>3, <2>4, <2>5, <2>8, <3>1
    <3>3. m \in Listed(ns, ns[p].child)
      BY <1>2, <3>1 DEF Kids, p
    <3> QED BY <2>3, <2>7, <3>2, <3>3
  <2> QED BY <2>9, <2>10
<1>7. f[k] \subseteq L
  BY <1>0, <1>5
<1>8. L \subseteq f[k]
  <2> SUFFICES ASSUME NEW n \in L PROVE n \in f[k]
    OBVIOUS
  <2>1. k \in 0 .. k /\ k - k <= ns[n].degree
    BY <1>0, <1>3
  <2> QED BY <1>6, <2>1
<1> QED BY <1>7, <1>8 DEF k

(* What the heap reaches is the forest.                                     *)
ReachedRight ==
    \A L : nodes \in Arena /\ Forest(nodes, root, L) =>
        /\ Reached = L
        /\ Roots = Kids(nodes, L, Null)
        /\ \A n \in L : Below(n) = Kids(nodes, L, n)

LEMMA ReachedIs == ReachedRight
<1> SUFFICES ASSUME NEW L, nodes \in Arena, Forest(nodes, root, L)
             PROVE  /\ Reached = L
                    /\ Roots = Kids(nodes, L, Null)
                    /\ \A n \in L : Below(n) = Kids(nodes, L, n)
  BY DEF ReachedRight
<1>1. Roots = Kids(nodes, L, Null) /\ \A n \in L : Below(n) = Kids(nodes, L, n)
  BY ForestLists DEF Roots, Below, Listed
<1>2. Len(nodes) \in Nat
  BY ArenaFunction
<1> DEFINE f == CHOOSE g : Spread(nodes, root, Len(nodes), g)
<1>3. Spread(nodes, root, Len(nodes), f)
  BY <1>2, SpreadExists
<1>4. Reached = f[Len(nodes)]
  BY DEF Reached, Spread, Roots, Below, Listed
<1> HIDE DEF f
<1> QED BY <1>1, <1>3, <1>4, ForestSpread

LEMMA ForestFacts ==
    ASSUME NEW ns \in Arena, NEW rt, NEW L, Forest(ns, rt, L)
    PROVE  /\ Null \notin L /\ \A n \in L : n \in 1 .. Len(ns) /\ ns[n] \in NodeRec
           /\ \A n \in L : ns[n].parent \in L \cup {Null} /\ ns[n].parent # n
           /\ \A o \in L \cup {Null} : Kids(ns, L, o) \subseteq L /\ o \notin Kids(ns, L, o)
<1>1. L \in SUBSET (1 .. Len(ns)) /\ \A n \in 1 .. Len(ns) : ns[n] \in NodeRec /\ n # Null
  BY ArenaFunction DEF Forest, Null
<1>2. ASSUME NEW n \in L PROVE ns[n].parent \in L \cup {Null} /\ ns[n].parent # n
  <2>1. ns[n].degree \in Nat /\ n # Null
    BY <1>1 DEF NodeRec
  <2>2. /\ ns[n].parent \in L \cup {Null}
        /\ ns[n].parent # Null => ns[n].degree < ns[ns[n].parent].degree
    BY DEF Forest
  <2> QED BY <2>1, <2>2
<1>3. ASSUME NEW o \in L \cup {Null} PROVE Kids(ns, L, o) \subseteq L /\ o \notin Kids(ns, L, o)
  BY <1>1, <1>2 DEF Kids
<1> QED BY <1>1, <1>2, <1>3

LEMMA ForestGrows ==
    ASSUME NEW ns \in Arena, NEW rt, NEW L, Forest(ns, rt, L),
           NEW out \in Arena, NEW n, n = Len(ns) + 1, Len(out) = n,
           \A m \in 1 .. Len(ns) :
               /\ out[m].item = ns[m].item /\ out[m].degree = ns[m].degree
               /\ out[m].parent = ns[m].parent /\ out[m].child = ns[m].child,
           out[n].degree = 0, out[n].parent = Null, out[n].child = Null,
           NEW rt2 \in Kids(ns, L, Null) \cup {n},
           Cycle(out, Kids(ns, L, Null) \cup {n}),
           \A m \in L \ Kids(ns, L, Null) : out[m].right = ns[m].right /\ out[m].left = ns[m].left
    PROVE  Forest(out, rt2, L \cup {n})
<1> DEFINE M == L \cup {n}
<1>0. Len(ns) \in Nat /\ L \in SUBSET (1 .. Len(ns)) /\ n \notin L /\ n # Null /\ Null \notin L
  BY ArenaFunction DEF Forest, Null
<1>1. M \subseteq 1 .. Len(out)
  BY <1>0
<1>2. \A m \in L : /\ out[m].item = ns[m].item /\ out[m].degree = ns[m].degree
                   /\ out[m].parent = ns[m].parent /\ out[m].child = ns[m].child
  BY <1>0
<1>3. /\ \A m \in L : ns[m].parent \in L \cup {Null} /\ ns[m].parent # m
      /\ \A o \in L \cup {Null} : Kids(ns, L, o) \subseteq L /\ o \notin Kids(ns, L, o)
  BY ForestFacts
<1>4. Kids(out, M, Null) = Kids(ns, L, Null) \cup {n}
  BY <1>2 DEF Kids
<1>5. ASSUME NEW o \in L PROVE Kids(out, M, o) = Kids(ns, L, o)
  <2>1. \A m \in L : out[m].parent = ns[m].parent
    BY <1>2
  <2>2. out[n].parent # o
    BY <1>0
  <2> QED BY <2>1, <2>2 DEF Kids
<1>6. Kids(out, M, n) = {}
  <2>1. \A m \in L : out[m].parent # n
    BY <1>0, <1>2, <1>3
  <2>2. out[n].parent # n
    BY <1>0
  <2> QED BY <2>1, <2>2 DEF Kids
<1> HIDE DEF M
<1>7. Heads(Kids(out, M, Null), rt2)
  BY <1>0, <1>3, <1>4 DEF Heads
<1>8. ASSUME NEW o \in M \cup {Null}
      PROVE  Cycle(out, Kids(out, M, o))
  <2>1. CASE o = Null
    BY <1>4, <2>1
  <2>2. CASE o = n
    BY <1>6, <2>2, CycleEmpty
  <2>3. CASE o \in L
    <3>1. \A m \in Kids(ns, L, o) : m \in L \ Kids(ns, L, Null)
      BY <1>0, <2>3 DEF Kids
    <3>2. Cycle(ns, Kids(ns, L, o))
      BY <2>3 DEF Forest
    <3>3. Cycle(out, Kids(ns, L, o))
      BY <3>1, <3>2, CycleFrame
    <3> QED BY <1>5, <2>3, <3>3
  <2> QED BY <1>8, <2>1, <2>2, <2>3 DEF M
<1>9. ASSUME NEW m \in M
      PROVE  /\ out[m].parent \in M \cup {Null}
             /\ Heads(Kids(out, M, m), out[m].child)
             /\ out[m].degree = Cardinality(Kids(out, M, m))
             /\ out[m].parent # Null =>
                 /\ out[m].degree < out[out[m].parent].degree
                 /\ out[out[m].parent].item <= out[m].item
  <2>1. CASE m = n
    BY <1>6, <2>1, FS_EmptySet DEF Heads
  <2>2. CASE m \in L
    <3>1. /\ ns[m].parent \in L \cup {Null}
          /\ Heads(Kids(ns, L, m), ns[m].child)
          /\ ns[m].degree = Cardinality(Kids(ns, L, m))
          /\ ns[m].parent # Null =>
              /\ ns[m].degree < ns[ns[m].parent].degree
              /\ ns[ns[m].parent].item <= ns[m].item
      BY <2>2 DEF Forest
    <3> QED BY <1>2, <1>5, <2>2, <3>1 DEF M
  <2> QED BY <1>9, <2>1, <2>2 DEF M
<1>10. Forest(out, rt2, M)
  BY <1>1, <1>7, <1>8, <1>9 DEF Forest, M
<1> QED BY <1>10 DEF M

LEMMA ForestLinks ==
    ASSUME NEW ns \in Arena, NEW rt, NEW L, Forest(ns, rt, L),
           NEW out \in Arena, Len(out) = Len(ns),
           NEW x \in Kids(ns, L, Null), NEW y \in Kids(ns, L, Null), x # y,
           ns[x].degree = ns[y].degree, ns[x].item <= ns[y].item,
           \A m \in 1 .. Len(ns) :
               /\ out[m].item = ns[m].item
               /\ out[m].degree = IF m = x THEN ns[x].degree + 1 ELSE ns[m].degree
               /\ out[m].parent = IF m = y THEN x ELSE ns[m].parent
               /\ m # x => out[m].child = ns[m].child,
           out[x].child \in Kids(ns, L, x) \cup {y},
           NEW rt2 \in Kids(ns, L, Null) \ {y},
           Cycle(out, Kids(ns, L, Null) \ {y}),
           Cycle(out, Kids(ns, L, x) \cup {y}),
           \A m \in L \ (Kids(ns, L, Null) \cup Kids(ns, L, x)) :
               out[m].right = ns[m].right /\ out[m].left = ns[m].left
    PROVE  Forest(out, rt2, L)
<1>0. L \in SUBSET (1 .. Len(ns)) /\ Null \notin L /\ x \in L /\ y \in L
  BY ForestFacts DEF Kids
<1>1. L \subseteq 1 .. Len(out)
  BY <1>0
<1>2. \A m \in L : /\ out[m].item = ns[m].item
                   /\ out[m].degree = IF m = x THEN ns[x].degree + 1 ELSE ns[m].degree
                   /\ out[m].parent = IF m = y THEN x ELSE ns[m].parent
                   /\ m # x => out[m].child = ns[m].child
  BY <1>0
<1>3. /\ \A m \in L : ns[m].parent \in L \cup {Null} /\ ns[m].parent # m
      /\ \A o \in L \cup {Null} : Kids(ns, L, o) \subseteq L /\ o \notin Kids(ns, L, o)
      /\ \A m \in L : ns[m].degree \in Nat /\ ns[m].item \in Int
  BY ForestFacts, BoundsAssumption DEF NodeRec
<1>10. /\ \A m \in L : out[m].parent = IF m = y THEN x ELSE ns[m].parent
       /\ ns[y].parent = Null /\ x # Null
  BY <1>0, <1>2 DEF Kids
<1>4. Kids(out, L, Null) = Kids(ns, L, Null) \ {y}
  BY <1>10 DEF Kids
<1>5. ASSUME NEW o \in L, o # x PROVE Kids(out, L, o) = Kids(ns, L, o)
  <2>1. o # Null
    BY <1>0
  <2> QED BY <1>5, <1>10, <2>1 DEF Kids
<1>6. Kids(out, L, x) = Kids(ns, L, x) \cup {y}
  <2>1. ASSUME NEW m \in L PROVE out[m].parent = x <=> ns[m].parent = x \/ m = y
    BY <1>10
  <2>2. Kids(out, L, x) = {m \in L : out[m].parent = x} /\ Kids(ns, L, x) = {m \in L : ns[m].parent = x}
    BY DEF Kids
  <2>3. Kids(out, L, x) \subseteq Kids(ns, L, x) \cup {y}
    BY <2>1, <2>2
  <2>4. Kids(ns, L, x) \subseteq Kids(out, L, x) /\ y \in Kids(out, L, x)
    BY <1>0, <2>1, <2>2
  <2> QED BY <2>3, <2>4, Zenon
<1>7. Heads(Kids(out, L, Null), rt2)
  BY <1>0, <1>3, <1>4 DEF Heads
<1>8. ASSUME NEW o \in L \cup {Null}
      PROVE  Cycle(out, Kids(out, L, o))
  <2>1. CASE o = Null
    BY <1>4, <2>1
  <2>2. CASE o = x
    BY <1>6, <2>2
  <2>3. CASE o \in L /\ o # x
    <3>1. \A m \in Kids(ns, L, o) : m \in L \ (Kids(ns, L, Null) \cup Kids(ns, L, x))
      BY <1>0, <2>3 DEF Kids
    <3>2. Cycle(ns, Kids(ns, L, o))
      BY <2>3 DEF Forest
    <3>3. Cycle(out, Kids(ns, L, o))
      BY <3>1, <3>2, CycleFrame
    <3> QED BY <1>5, <2>3, <3>3
  <2> QED BY <1>8, <2>1, <2>2, <2>3
<1>9. ASSUME NEW m \in L
      PROVE  /\ out[m].parent \in L \cup {Null}
             /\ Heads(Kids(out, L, m), out[m].child)
             /\ out[m].degree = Cardinality(Kids(out, L, m))
             /\ out[m].parent # Null =>
                 /\ out[m].degree < out[out[m].parent].degree
                 /\ out[out[m].parent].item <= out[m].item
  <2>1. /\ ns[m].parent \in L \cup {Null}
        /\ Heads(Kids(ns, L, m), ns[m].child)
        /\ ns[m].degree = Cardinality(Kids(ns, L, m))
        /\ ns[m].parent # Null =>
            /\ ns[m].degree < ns[ns[m].parent].degree
            /\ ns[ns[m].parent].item <= ns[m].item
    BY DEF Forest
  <2>2. out[m].parent \in L \cup {Null}
    BY <1>0, <1>2, <2>1
  <2>3. Heads(Kids(out, L, m), out[m].child)
    <3>1. CASE m = x
      BY <1>0, <1>3, <1>6, <3>1 DEF Heads
    <3>2. CASE m # x
      BY <1>2, <1>5, <2>1, <3>2
    <3> QED BY <3>1, <3>2
  <2>4. out[m].degree = Cardinality(Kids(out, L, m))
    <3>1. CASE m = x
      <4>1. y \notin Kids(ns, L, x)
        BY <1>0 DEF Kids
      <4>2. IsFiniteSet(Kids(ns, L, x))
        <5>1. IsFiniteSet(L)
          BY ForestSize
        <5> QED BY <1>0, <1>3, <5>1, FS_Subset
      <4>3. Cardinality(Kids(ns, L, x) \cup {y}) = Cardinality(Kids(ns, L, x)) + 1
        BY <4>1, <4>2, FS_AddElement
      <4> QED BY <1>0, <1>2, <1>6, <2>1, <3>1, <4>3
    <3>2. CASE m # x
      BY <1>2, <1>5, <2>1, <3>2
    <3> QED BY <3>1, <3>2
  <2>5. ASSUME out[m].parent # Null
        PROVE  out[m].degree < out[out[m].parent].degree /\ out[out[m].parent].item <= out[m].item
    <3>1. CASE m = y
      <4>1. out[m].parent = x /\ out[x].degree = ns[x].degree + 1 /\ out[m].degree = ns[x].degree
        BY <1>0, <1>2, <3>1
      <4> QED BY <1>0, <1>2, <1>3, <3>1, <4>1
    <3>2. CASE m # y
      <4> DEFINE p == ns[m].parent
      <4>1. p \in L /\ out[m].parent = p /\ ns[m].degree < ns[p].degree /\ ns[p].item <= ns[m].item
        BY <1>2, <2>1, <2>5, <3>2
      <4>2. m # x
        BY <1>2, <2>5, <3>2 DEF Kids
      <4> HIDE DEF p
      <4> QED BY <1>0, <1>2, <1>3, <4>1, <4>2
    <3> QED BY <3>1, <3>2
  <2> QED BY <2>2, <2>3, <2>4, <2>5
<1> QED BY <1>1, <1>7, <1>8, <1>9 DEF Forest

LEMMA ForestPops ==
    ASSUME NEW ns \in Arena, NEW rt, NEW L, Forest(ns, rt, L),
           NEW out \in Arena, Len(out) = Len(ns),
           NEW z \in Kids(ns, L, Null),
           \A m \in 1 .. Len(ns) :
               /\ out[m].item = ns[m].item /\ out[m].degree = ns[m].degree
               /\ out[m].parent = IF m \in Kids(ns, L, z) THEN Null ELSE ns[m].parent
               /\ out[m].child = ns[m].child,
           NEW rt2 \in (Kids(ns, L, Null) \cup Kids(ns, L, z)) \ {z},
           Cycle(out, (Kids(ns, L, Null) \cup Kids(ns, L, z)) \ {z}),
           \A m \in L \ (Kids(ns, L, Null) \cup Kids(ns, L, z)) :
               out[m].right = ns[m].right /\ out[m].left = ns[m].left
    PROVE  Forest(out, rt2, L \ {z})
<1> DEFINE M == L \ {z}
<1>0. L \in SUBSET (1 .. Len(ns)) /\ Null \notin L /\ z \in L /\ ns[z].parent = Null
  BY ForestFacts DEF Kids
<1>1. M \subseteq 1 .. Len(out)
  BY <1>0
<1>2. \A m \in L : /\ out[m].item = ns[m].item /\ out[m].degree = ns[m].degree
                   /\ out[m].parent = IF m \in Kids(ns, L, z) THEN Null ELSE ns[m].parent
                   /\ out[m].child = ns[m].child
  BY <1>0
<1>3. /\ \A m \in L : ns[m].parent \in L \cup {Null} /\ ns[m].parent # m
      /\ \A o \in L \cup {Null} : Kids(ns, L, o) \subseteq L /\ o \notin Kids(ns, L, o)
  BY ForestFacts
<1>4. Kids(out, M, Null) = (Kids(ns, L, Null) \cup Kids(ns, L, z)) \ {z}
  BY <1>0, <1>2 DEF Kids
<1>5. \A o \in M : Kids(out, M, o) = Kids(ns, L, o)
  BY <1>0, <1>2 DEF Kids
<1>6. M \subseteq L
  OBVIOUS
<1>7. Heads(Kids(out, M, Null), rt2)
  <2>1. Kids(ns, L, Null) \subseteq L /\ Kids(ns, L, z) \subseteq L
    BY DEF Kids
  <2>2. rt2 # Null
    BY <1>0, <2>1
  <2> QED BY <1>4, <2>2 DEF Heads
<1>8. ASSUME NEW o \in M \cup {Null}
      PROVE  Cycle(out, Kids(out, M, o))
  <2>1. CASE o = Null
    BY <1>4, <2>1
  <2>2. CASE o \in M
    <3>1. \A m \in Kids(ns, L, o) : m \in L \ (Kids(ns, L, Null) \cup Kids(ns, L, z))
      BY <1>0, <2>2 DEF Kids
    <3>2. Cycle(ns, Kids(ns, L, o))
      BY <2>2 DEF Forest
    <3>3. Cycle(out, Kids(ns, L, o))
      BY <3>1, <3>2, CycleFrame
    <3> QED BY <1>5, <2>2, <3>3
  <2> QED BY <2>1, <2>2
<1>9. ASSUME NEW m \in M
      PROVE  /\ out[m].parent \in M \cup {Null}
             /\ Heads(Kids(out, M, m), out[m].child)
             /\ out[m].degree = Cardinality(Kids(out, M, m))
             /\ out[m].parent # Null =>
                 /\ out[m].degree < out[out[m].parent].degree
                 /\ out[out[m].parent].item <= out[m].item
  <2>1. /\ ns[m].parent \in L \cup {Null}
        /\ Heads(Kids(ns, L, m), ns[m].child)
        /\ ns[m].degree = Cardinality(Kids(ns, L, m))
        /\ ns[m].parent # Null =>
            /\ ns[m].degree < ns[ns[m].parent].degree
            /\ ns[ns[m].parent].item <= ns[m].item
    BY DEF Forest
  <2>2. out[m].parent \in M \cup {Null}
    BY <1>2, <2>1 DEF Kids
  <2>3. Heads(Kids(out, M, m), out[m].child) /\ out[m].degree = Cardinality(Kids(out, M, m))
    BY <1>2, <1>5, <2>1
  <2>4. ASSUME out[m].parent # Null
        PROVE  out[m].degree < out[out[m].parent].degree /\ out[out[m].parent].item <= out[m].item
    <3>1. out[m].parent = ns[m].parent /\ ns[m].parent \in L /\ ns[m].parent # Null
      BY <1>2, <2>1, <2>4
    <3> QED BY <1>2, <2>1, <3>1
  <2> QED BY <2>2, <2>3, <2>4
<1> HIDE DEF M
<1>10. Forest(out, rt2, M)
  BY <1>1, <1>7, <1>8, <1>9 DEF Forest
<1> QED BY <1>10 DEF M

-----------------------------------------------------------------------------
(* What push, link and pop make of a forest *)

(* t is the heap of ns with a new root n.                                   *)
Grown(ns, L, v, n, t) ==
    /\ t.nodes \in Arena /\ Len(t.nodes) = n /\ n \notin L
    /\ Forest(t.nodes, t.root, L \cup {n})
    /\ \A m \in 1 .. Len(ns) :
         /\ t.nodes[m].item = ns[m].item /\ t.nodes[m].degree = ns[m].degree
         /\ t.nodes[m].parent = ns[m].parent
    /\ t.nodes[n].item = v /\ t.nodes[n].parent = Null

LEMMA PushForest ==
    ASSUME NEW ns \in Arena, NEW rt, NEW L, Forest(ns, rt, L), NEW v \in Items
    PROVE  LET n == Len(ns) + 1
           IN  Grown(ns, L, v, n, MergeWithRoot([nodes |-> Append(ns, Node(v, n)), root |-> rt], n))
<1> DEFINE n == Len(ns) + 1
           long == Append(ns, Node(v, n))
           t == MergeWithRoot([nodes |-> long, root |-> rt], n)
<1>0. ns \in [1 .. Len(ns) -> NodeRec] /\ Len(ns) \in Nat
  BY ArenaFunction
<1>1. Node(v, n) \in NodeRec
  BY <1>0 DEF Node, NodeRec, Null
<1>2. long \in Arena /\ Len(long) = n /\ long[n] = Node(v, n) /\ \A m \in 1 .. Len(ns) : long[m] = ns[m]
  BY <1>1 DEF Arena
<1>3. /\ long[n].item = v /\ long[n].degree = 0 /\ long[n].parent = Null /\ long[n].child = Null
      /\ long[n].left = n /\ long[n].right = n
  BY <1>2 DEF Node
<1> HIDE DEF long
<1>4. Kids(ns, L, Null) \subseteq L /\ L \subseteq 1 .. Len(ns) /\ n \notin L /\ n \in 1 .. n /\ n # Null
  BY <1>0 DEF Forest, Kids, Null
<1>5. Heads(Kids(ns, L, Null), rt) /\ Cycle(ns, Kids(ns, L, Null))
  BY DEF Forest
<1>6. CASE rt = Null
  <2>1. t = [nodes |-> long, root |-> n]
    BY <1>6 DEF MergeWithRoot
  <2>2. t.nodes = long /\ t.root = n
    BY <2>1
  <2> HIDE DEF t
  <2>3. Kids(ns, L, Null) = {}
    BY <1>5, <1>6 DEF Heads
  <2>4. Cycle(long, {n})
    BY <1>3, CycleSingle
  <2>5. Cycle(long, Kids(ns, L, Null) \cup {n})
    BY <2>3, <2>4
  <2>6. \A m \in L \ Kids(ns, L, Null) : long[m].right = ns[m].right /\ long[m].left = ns[m].left
    BY <1>2, <1>4
  <2> HIDE DEF n
  <2>7. \A m \in 1 .. Len(ns) :
               /\ long[m].item = ns[m].item /\ long[m].degree = ns[m].degree
               /\ long[m].parent = ns[m].parent /\ long[m].child = ns[m].child
    BY <1>2
  <2>8. Forest(long, n, L \cup {n})
    <3>1. n = Len(ns) + 1 /\ n \in Kids(ns, L, Null) \cup {n}
      BY DEF n
    <3> QED BY <1>2, <1>3, <2>5, <2>6, <2>7, <3>1, ForestGrows
  <2> QED BY <1>2, <1>3, <1>4, <2>2, <2>7, <2>8 DEF Grown, t, long, n
<1>7. CASE rt # Null
  <2> DEFINE out == InsertAfter(long, rt, n)
  <2>1. t.nodes = out /\ t.root = rt
    BY <1>7 DEF MergeWithRoot
  <2> HIDE DEF t
  <2>2. rt \in Kids(ns, L, Null) /\ ns[rt].right \in Kids(ns, L, Null)
    BY <1>5, <1>7 DEF Heads, Cycle
  <2>3. rt \in 1 .. Len(ns) /\ long[rt] = ns[rt]
    BY <1>2, <1>4, <2>2
  <2>4. rt \in 1 .. n /\ rt # n /\ long[rt].right \in 1 .. n /\ long[rt].right # n
    <3>1. ns[rt].right \in 1 .. Len(ns) /\ ns[rt].right # n
      BY <1>4, <2>2
    <3>2. \A m \in 1 .. Len(ns) : m \in 1 .. n /\ m # n
      BY <1>0
    <3> QED BY <2>3, <3>1, <3>2
  <2> HIDE DEF n
  <2>5. /\ out \in Arena /\ Len(out) = n
        /\ \A m \in 1 .. n :
            /\ out[m].item = long[m].item /\ out[m].degree = long[m].degree
            /\ out[m].parent = long[m].parent /\ out[m].child = long[m].child
            /\ out[m].right = IF m = rt THEN n ELSE IF m = n THEN long[rt].right ELSE long[m].right
            /\ out[m].left = IF m = long[rt].right THEN n ELSE IF m = n THEN rt ELSE long[m].left
    BY <1>2, <1>4, <2>4, InsertAfterFacts
  <2> HIDE DEF out
  <2>6. \A m \in 1 .. Len(ns) : m \in 1 .. n
    BY <1>0 DEF n
  <2>7. \A m \in 1 .. Len(ns) :
               /\ out[m].item = ns[m].item /\ out[m].degree = ns[m].degree
               /\ out[m].parent = ns[m].parent /\ out[m].child = ns[m].child
    BY <1>2, <2>5, <2>6
  <2>8. /\ out[n].degree = 0 /\ out[n].parent = Null /\ out[n].child = Null /\ out[n].item = v
    BY <1>3, <1>4, <2>5
  <2>9. \A m \in L \ Kids(ns, L, Null) : out[m].right = ns[m].right /\ out[m].left = ns[m].left
    <3> TAKE m \in L \ Kids(ns, L, Null)
    <3>1. m # rt /\ m # n /\ m # long[rt].right /\ m \in 1 .. Len(ns)
      BY <1>4, <2>2, <2>3
    <3> QED BY <1>2, <2>5, <2>6, <3>1
  <2>10. Cycle(long, Kids(ns, L, Null))
    <3>1. \A m \in Kids(ns, L, Null) : long[m].right = ns[m].right /\ long[m].left = ns[m].left
      BY <1>2, <1>4
    <3> QED BY <1>5, <3>1, CycleFrame
  <2>11. Cycle(out, Kids(ns, L, Null) \cup {n})
    <3>1. n \notin Kids(ns, L, Null)
      BY <1>4
    <3>2. \A m \in Kids(ns, L, Null) \cup {n} : m \in 1 .. n
      BY <1>4, <2>6
    <3>3. \A m \in Kids(ns, L, Null) \cup {n} :
            /\ out[m].right = IF m = rt THEN n ELSE IF m = n THEN long[rt].right ELSE long[m].right
            /\ out[m].left = IF m = long[rt].right THEN n ELSE IF m = n THEN rt ELSE long[m].left
      BY <2>5, <3>2
    <3> QED BY <2>2, <2>10, <3>1, <3>3, CycleInsert
  <2>12. Forest(out, rt, L \cup {n})
    <3>1. n = Len(ns) + 1 /\ rt \in Kids(ns, L, Null) \cup {n}
      BY <2>2 DEF n
    <3> QED BY <2>5, <2>7, <2>8, <2>9, <2>11, <3>1, ForestGrows
  <2> QED BY <1>4, <2>1, <2>5, <2>7, <2>8, <2>12 DEF Grown, t, long, n
<1> QED BY <1>6, <1>7

(* t is the heap of ns with y hung below x.                                 *)
Linked(ns, L, y, x, t) ==
    /\ t.nodes \in Arena /\ Len(t.nodes) = Len(ns)
    /\ Forest(t.nodes, t.root, L)
    /\ \A m \in 1 .. Len(ns) :
         /\ t.nodes[m].item = ns[m].item
         /\ t.nodes[m].degree = IF m = x THEN ns[x].degree + 1 ELSE ns[m].degree
         /\ t.nodes[m].parent = IF m = y THEN x ELSE ns[m].parent

LEMMA LinkForest ==
    ASSUME NEW ns \in Arena, NEW rt, NEW L, Forest(ns, rt, L),
           NEW x \in Kids(ns, L, Null), NEW y \in Kids(ns, L, Null), x # y,
           ns[x].degree = ns[y].degree, ns[x].item <= ns[y].item
    PROVE  Linked(ns, L, y, x, Link([nodes |-> ns, root |-> rt], y, x))
<1> DEFINE k == Len(ns)
           R == Kids(ns, L, Null)
           C == Kids(ns, L, x)
           cut == RemoveFromRoot([nodes |-> ns, root |-> rt], y)
           alone == [cut.nodes EXCEPT ![y].left = y, ![y].right = y]
           hung == MergeWithChild(alone, x, y)
           out == [hung EXCEPT ![x].degree = @ + 1, ![y].parent = x]
           t == Link([nodes |-> ns, root |-> rt], y, x)
<1>0. ns \in [1 .. k -> NodeRec] /\ k \in Nat
  BY ArenaFunction
<1>1. t = [nodes |-> out, root |-> cut.root]
  <2>1. cut = [nodes |-> cut.nodes, root |-> cut.root]
    BY DEF RemoveFromRoot
  <2>2. t = [cut EXCEPT !.nodes = out]
    BY Zenon DEF Link
  <2> HIDE DEF cut, out
  <2> QED BY <2>1, <2>2
<1>2. /\ R \subseteq L /\ C \subseteq L /\ L \subseteq 1 .. k /\ x \notin C /\ Null \notin L
      /\ R \cap C = {} /\ x \in L
      /\ ns[x].parent = Null
  BY ForestFacts DEF Kids
<1>3. /\ rt \in R /\ Cycle(ns, R) /\ Cycle(ns, C) /\ Heads(C, ns[x].child)
  <2>1. Heads(R, rt)
    BY DEF Forest
  <2> QED BY <1>2, <2>1 DEF Heads, Forest
<1>4. ns[y].left \in R /\ ns[y].right \in R
  BY <1>3 DEF Cycle
<1>5. x \in 1 .. k /\ y \in 1 .. k /\ ns[y].left \in 1 .. k /\ ns[y].right \in 1 .. k
  BY <1>2, <1>4
<1> DEFINE c == cut.nodes
<1>6. /\ cut = [nodes |-> c, root |-> IF rt = y THEN ns[y].right ELSE rt]
      /\ c \in Arena /\ Len(c) = k
      /\ \A m \in 1 .. k :
            /\ c[m].item = ns[m].item /\ c[m].degree = ns[m].degree
            /\ c[m].parent = ns[m].parent /\ c[m].child = ns[m].child
            /\ c[m].right = IF m = ns[y].left THEN ns[y].right ELSE ns[m].right
            /\ c[m].left = IF m = ns[y].right THEN ns[y].left ELSE ns[m].left
  BY <1>5, RemoveFacts
<1>7. cut.root = IF rt = y THEN ns[y].right ELSE rt
  BY <1>6
<1> HIDE DEF cut, c, t
<1>8. Cycle(c, R \ {y}) /\ ns[y].right \in R \ {y}
  <2>1. \A m \in R : /\ c[m].right = IF m = ns[y].left THEN ns[y].right ELSE ns[m].right
                     /\ c[m].left = IF m = ns[y].right THEN ns[y].left ELSE ns[m].left
    BY <1>2, <1>6
  <2>2. R # {y}
    OBVIOUS
  <2> HIDE DEF R
  <2> QED BY <1>3, <2>1, <2>2, CycleRemove DEF R
<1>9. cut.root \in R \ {y}
  BY <1>3, <1>7, <1>8
<1> HIDE DEF R, C
<1>10. c \in [1 .. k -> NodeRec] /\ 1 .. k \subseteq Nat
  BY <1>6, ArenaFunction
<1>11. /\ alone \in Arena /\ Len(alone) = k
       /\ \A m \in 1 .. k :
            /\ alone[m].item = ns[m].item /\ alone[m].degree = ns[m].degree
            /\ alone[m].parent = ns[m].parent /\ alone[m].child = ns[m].child
            /\ alone[m].right = IF m = y THEN y ELSE c[m].right
            /\ alone[m].left = IF m = y THEN y ELSE c[m].left
  <2>1. alone = Rights(Lefts(c, y, y), y, y)
    BY DEF Rights, Lefts, c
  <2>2. Lefts(c, y, y) \in [1 .. k -> NodeRec]
    BY <1>5, <1>10, LeftsStays
  <2>3. Rights(Lefts(c, y, y), y, y) \in [1 .. k -> NodeRec]
    BY <1>5, <1>10, <2>2, RightsStays
  <2>4. alone \in Arena /\ Len(alone) = k
    BY <1>0, <2>1, <2>3, FunctionArena
  <2> HIDE DEF k
  <2>5. ASSUME NEW m \in 1 .. k
        PROVE  /\ alone[m].item = c[m].item /\ alone[m].degree = c[m].degree
               /\ alone[m].parent = c[m].parent /\ alone[m].child = c[m].child
               /\ alone[m].right = IF m = y THEN y ELSE c[m].right
               /\ alone[m].left = IF m = y THEN y ELSE c[m].left
    BY <1>5, <1>10 DEF NodeRec, c
  <2> HIDE DEF alone
  <2> QED BY <1>6, <2>4, <2>5
<1> HIDE DEF alone
<1>12. Cycle(alone, R \ {y})
  <2>1. \A m \in R \ {y} : alone[m].right = c[m].right /\ alone[m].left = c[m].left
    BY <1>2, <1>11 DEF R
  <2> QED BY <1>8, <2>1, CycleFrame
<1>13. Cycle(alone, C)
  <2>1. \A m \in C : alone[m].right = ns[m].right /\ alone[m].left = ns[m].left
    <3> TAKE m \in C
    <3>1. m \in 1 .. k /\ m # y /\ m # ns[y].left /\ m # ns[y].right
      BY <1>2, <1>4 DEF R
    <3> QED BY <1>6, <1>11, <3>1
  <2> QED BY <1>3, <2>1, CycleFrame
<1>14. /\ hung \in Arena /\ Len(hung) = k
       /\ \A m \in 1 .. k :
            /\ hung[m].item = ns[m].item /\ hung[m].degree = ns[m].degree
            /\ hung[m].parent = ns[m].parent
            /\ m # x => hung[m].child = ns[m].child
       /\ hung[x].child \in C \cup {y}
       /\ Cycle(hung, C \cup {y})
       /\ \A m \in 1 .. k : m \notin C \cup {y} =>
            hung[m].right = alone[m].right /\ hung[m].left = alone[m].left
  <2>1. CASE ns[x].child = Null
    <3>1. hung = [alone EXCEPT ![x].child = y]
      BY <1>5, <1>11, <2>1 DEF MergeWithChild
    <3>2. alone \in [1 .. k -> NodeRec] /\ y \in Nat
      BY <1>5, <1>10, <1>11, ArenaFunction
    <3> HIDE DEF k
    <3>3. hung \in [1 .. k -> NodeRec]
      BY <1>5, <3>1, <3>2 DEF NodeRec
    <3>4. hung \in Arena /\ Len(hung) = k
      BY <1>0, <3>3, FunctionArena
    <3>5. ASSUME NEW m \in 1 .. k
          PROVE  /\ hung[m].item = alone[m].item /\ hung[m].degree = alone[m].degree
                 /\ hung[m].parent = alone[m].parent
                 /\ hung[m].child = IF m = x THEN y ELSE alone[m].child
                 /\ hung[m].right = alone[m].right /\ hung[m].left = alone[m].left
      <4>1. hung[m] = IF m = x THEN [alone[x] EXCEPT !.child = y] ELSE alone[m]
        BY <1>5, <3>1, <3>2
      <4>2. alone[x] \in NodeRec
        BY <1>5, <3>2
      <4> QED BY <4>1, <4>2 DEF NodeRec
    <3> HIDE DEF hung
    <3>6. C = {}
      BY <1>3, <2>1 DEF Heads
    <3>7. Cycle(hung, {y})
      BY <1>5, <1>11, <3>5, CycleSingle
    <3> QED BY <1>5, <1>11, <3>4, <3>5, <3>6, <3>7
  <2>2. CASE ns[x].child # Null
    <3> DEFINE at == ns[x].child
    <3>1. hung = InsertAfter(alone, at, y)
      BY <1>5, <1>11, <2>2 DEF MergeWithChild
    <3>2. at \in C /\ alone[at].right \in C
      BY <1>3, <1>13, <2>2 DEF Heads, Cycle
    <3> HIDE DEF at, hung
    <3>3. y \notin C
      BY <1>2 DEF R
    <3>4. at \in 1 .. k /\ at # y /\ alone[at].right \in 1 .. k /\ alone[at].right # y
      BY <1>2, <3>2, <3>3
    <3>5. /\ hung \in Arena /\ Len(hung) = k
          /\ \A m \in 1 .. k :
               /\ hung[m].item = alone[m].item /\ hung[m].degree = alone[m].degree
               /\ hung[m].parent = alone[m].parent /\ hung[m].child = alone[m].child
               /\ hung[m].right = IF m = at THEN y ELSE IF m = y THEN alone[at].right ELSE alone[m].right
               /\ hung[m].left = IF m = alone[at].right THEN y ELSE IF m = y THEN at ELSE alone[m].left
      BY <1>5, <1>11, <3>1, <3>4, InsertAfterFacts
    <3>6. Cycle(hung, C \cup {y})
      <4>1. \A m \in C \cup {y} : m \in 1 .. k
        BY <1>2, <1>5
      <4>2. \A m \in C \cup {y} :
               /\ hung[m].right = IF m = at THEN y ELSE IF m = y THEN alone[at].right ELSE alone[m].right
               /\ hung[m].left = IF m = alone[at].right THEN y ELSE IF m = y THEN at ELSE alone[m].left
        BY <3>5, <4>1
      <4> QED BY <1>13, <3>2, <3>3, <4>2, CycleInsert
    <3>7. hung[x].child = at
      BY <1>5, <1>11, <3>5 DEF at
    <3>8. \A m \in 1 .. k : m \notin C \cup {y} =>
            hung[m].right = alone[m].right /\ hung[m].left = alone[m].left
      BY <3>2, <3>5
    <3> QED BY <1>11, <3>2, <3>5, <3>6, <3>7, <3>8
  <2> QED BY <2>1, <2>2
<1> HIDE DEF hung
<1>15. hung \in [1 .. k -> NodeRec]
  BY <1>14, ArenaFunction
<1>16. /\ out \in Arena /\ Len(out) = k
       /\ \A m \in 1 .. k :
            /\ out[m].item = hung[m].item
            /\ out[m].degree = IF m = x THEN hung[x].degree + 1 ELSE hung[m].degree
            /\ out[m].parent = IF m = y THEN x ELSE hung[m].parent
            /\ out[m].child = hung[m].child
            /\ out[m].right = hung[m].right /\ out[m].left = hung[m].left
  <2> HIDE DEF k
  <2> DEFINE grown == [hung EXCEPT ![x].degree = @ + 1]
  <2>1. grown \in [1 .. k -> NodeRec]
    <3>1. hung[x] \in NodeRec
      BY <1>5, <1>15
    <3>2. [hung[x] EXCEPT !.degree = hung[x].degree + 1] \in NodeRec
      BY <3>1 DEF NodeRec
    <3> QED BY <1>5, <1>15, <3>2
  <2>2. ASSUME NEW m \in 1 .. k
        PROVE  /\ grown[m].item = hung[m].item
               /\ grown[m].degree = IF m = x THEN hung[x].degree + 1 ELSE hung[m].degree
               /\ grown[m].parent = hung[m].parent /\ grown[m].child = hung[m].child
               /\ grown[m].right = hung[m].right /\ grown[m].left = hung[m].left
    BY <1>5, <1>15 DEF NodeRec
  <2>3. out = [grown EXCEPT ![y].parent = x]
    OBVIOUS
  <2> HIDE DEF grown, out
  <2>4. out \in [1 .. k -> NodeRec]
    BY <1>5, <1>10, <2>1, <2>3 DEF NodeRec
  <2>5. ASSUME NEW m \in 1 .. k
        PROVE  /\ out[m].item = grown[m].item /\ out[m].degree = grown[m].degree
               /\ out[m].parent = IF m = y THEN x ELSE grown[m].parent
               /\ out[m].child = grown[m].child
               /\ out[m].right = grown[m].right /\ out[m].left = grown[m].left
    BY <1>5, <2>1, <2>3 DEF NodeRec
  <2>6. out \in Arena /\ Len(out) = k
    BY <1>0, <2>4, FunctionArena
  <2> QED BY <2>2, <2>5, <2>6
<1> HIDE DEF out
<1>17. \A m \in 1 .. k :
            /\ out[m].item = ns[m].item
            /\ out[m].degree = IF m = x THEN ns[x].degree + 1 ELSE ns[m].degree
            /\ out[m].parent = IF m = y THEN x ELSE ns[m].parent
            /\ m # x => out[m].child = ns[m].child
  BY <1>5, <1>14, <1>16
<1>18. Cycle(out, R \ {y})
  <2>1. \A m \in R \ {y} : m \in 1 .. k /\ m \notin C \cup {y}
    BY <1>2
  <2>2. \A m \in R \ {y} : out[m].right = alone[m].right /\ out[m].left = alone[m].left
    BY <1>14, <1>16, <2>1
  <2> QED BY <1>12, <2>2, CycleFrame
<1>19. Cycle(out, C \cup {y})
  <2>1. \A m \in C \cup {y} : out[m].right = hung[m].right /\ out[m].left = hung[m].left
    BY <1>2, <1>5, <1>16
  <2> QED BY <1>14, <2>1, CycleFrame
<1>20. \A m \in L \ (R \cup C) : out[m].right = ns[m].right /\ out[m].left = ns[m].left
  <2> TAKE m \in L \ (R \cup C)
  <2>1. m \in 1 .. k /\ m # y /\ m # ns[y].left /\ m # ns[y].right /\ m \notin C \cup {y}
    BY <1>2, <1>4 DEF R
  <2> QED BY <1>6, <1>11, <1>14, <1>16, <2>1
<1>21. out[x].child \in C \cup {y}
  BY <1>5, <1>14, <1>16
<1>22. Forest(out, cut.root, L)
  BY <1>9, <1>16, <1>17, <1>18, <1>19, <1>20, <1>21, ForestLinks DEF R, C, k
<1>23. t.nodes = out /\ t.root = cut.root
  BY <1>1
<1> QED BY <1>16, <1>17, <1>22, <1>23 DEF Linked, k, t

LEMMA RootAbove ==
    ASSUME NEW ns \in Arena, NEW rt, NEW L, Forest(ns, rt, L), NEW n \in L
    PROVE  \E r \in Kids(ns, L, Null) :
               ns[r].item <= ns[n].item /\ (n = r \/ Kids(ns, L, r) # {})
<1> DEFINE k == Len(ns)
           Good(m) == \E r \in Kids(ns, L, Null) :
                         ns[r].item <= ns[m].item /\ (m = r \/ Kids(ns, L, r) # {})
           Wrong == {e \in Nat : \E m \in L : e = k - ns[m].degree /\ ~Good(m)}
<1> SUFFICES ASSUME ~Good(n) PROVE FALSE
  OBVIOUS
<1>0. k \in Nat
  BY ArenaFunction
<1>1. \A m \in L : ns[m].degree \in Nat /\ ns[m].degree < k /\ ns[m].item \in Int
  <2>1. /\ Cardinality(L) \in Nat /\ Cardinality(L) <= k
        /\ \A m \in L : ns[m].degree \in Nat /\ ns[m].degree < Cardinality(L)
    BY ForestSize
  <2>2. \A m \in L : ns[m].item \in Int
    BY ForestFacts, BoundsAssumption DEF NodeRec
  <2> QED BY <1>0, <2>1, <2>2
<1>2. \A m \in L : /\ ns[m].parent \in L \cup {Null}
                   /\ ns[m].parent # Null =>
                        ns[m].degree < ns[ns[m].parent].degree /\ ns[ns[m].parent].item <= ns[m].item
  BY DEF Forest
<1> HIDE DEF k, Good
<1>3. Wrong \in SUBSET Nat /\ Wrong # {}
  <2>1. k - ns[n].degree \in Nat
    BY <1>0, <1>1
  <2> QED BY <2>1
<1>4. PICK e \in Wrong : \A c \in Wrong : e <= c
  BY <1>3, LeastMember
<1>5. PICK m \in L : e = k - ns[m].degree /\ ~Good(m)
  BY <1>4
<1>6. CASE ns[m].parent = Null
  <2>1. m \in Kids(ns, L, Null) /\ ns[m].item <= ns[m].item
    BY <1>1, <1>6 DEF Kids
  <2> QED BY <1>5, <2>1 DEF Good
<1>7. CASE ns[m].parent # Null
  <2> DEFINE p == ns[m].parent
  <2>1. p \in L /\ ns[m].degree < ns[p].degree /\ ns[p].item <= ns[m].item /\ m \in Kids(ns, L, p)
    BY <1>2, <1>7 DEF Kids
  <2> HIDE DEF p
  <2>2. k - ns[p].degree \in Nat /\ ~(e <= k - ns[p].degree)
    BY <1>0, <1>1, <1>5, <2>1
  <2>3. Good(p)
    BY <1>4, <2>1, <2>2
  <2>4. PICK r \in Kids(ns, L, Null) : ns[r].item <= ns[p].item /\ (p = r \/ Kids(ns, L, r) # {})
    BY <2>3 DEF Good
  <2>5. r \in L
    BY DEF Kids
  <2>6. ns[r].item <= ns[m].item /\ Kids(ns, L, r) # {}
    BY <1>1, <2>1, <2>4, <2>5
  <2> QED BY <1>5, <2>6 DEF Good
<1> QED BY <1>6, <1>7

(* A child joins the roots, as in Without.                                  *)
Joined(t, c) == [MergeWithRoot(t, c) EXCEPT !.nodes[c].parent = Null]

Joins(ns, S, rt, C, u) ==
    /\ u = [nodes |-> u.nodes, root |-> rt]
    /\ u.nodes \in Arena /\ Len(u.nodes) = Len(ns)
    /\ Cycle(u.nodes, S \cup C)
    /\ \A m \in 1 .. Len(ns) :
         /\ u.nodes[m].item = ns[m].item /\ u.nodes[m].degree = ns[m].degree
         /\ u.nodes[m].child = ns[m].child
         /\ u.nodes[m].parent = IF m \in C THEN Null ELSE ns[m].parent
         /\ m \notin S \cup C =>
              u.nodes[m].right = ns[m].right /\ u.nodes[m].left = ns[m].left

LEMMA JoinOne ==
    ASSUME NEW ns \in Arena, NEW S \in SUBSET (1 .. Len(ns)), Cycle(ns, S), NEW rt \in S,
           NEW c \in 1 .. Len(ns), c \notin S
    PROVE  Joins(ns, S, rt, {c}, Joined([nodes |-> ns, root |-> rt], c))
<1> DEFINE k == Len(ns)
           wide == InsertAfter(ns, rt, c)
           out == [wide EXCEPT ![c].parent = Null]
           u == Joined([nodes |-> ns, root |-> rt], c)
<1>0. ns \in [1 .. k -> NodeRec] /\ k \in Nat /\ rt # Null /\ Null \in Nat
  BY ArenaFunction DEF Null
<1>1. u = [nodes |-> out, root |-> rt]
  <2>1. MergeWithRoot([nodes |-> ns, root |-> rt], c) = [nodes |-> wide, root |-> rt]
    BY <1>0 DEF MergeWithRoot
  <2> HIDE DEF wide
  <2>2. u = [[nodes |-> wide, root |-> rt] EXCEPT !.nodes[c].parent = Null]
    BY <2>1 DEF Joined
  <2> QED BY <2>2
<1>2. ns[rt].right \in S
  BY DEF Cycle
<1>3. rt \in 1 .. k /\ rt # c /\ ns[rt].right \in 1 .. k /\ ns[rt].right # c
  BY <1>2
<1>4. /\ wide \in Arena /\ Len(wide) = k
      /\ \A m \in 1 .. k :
            /\ wide[m].item = ns[m].item /\ wide[m].degree = ns[m].degree
            /\ wide[m].parent = ns[m].parent /\ wide[m].child = ns[m].child
            /\ wide[m].right = IF m = rt THEN c ELSE IF m = c THEN ns[rt].right ELSE ns[m].right
            /\ wide[m].left = IF m = ns[rt].right THEN c ELSE IF m = c THEN rt ELSE ns[m].left
  BY <1>3, InsertAfterFacts
<1> HIDE DEF wide, u
<1>5. wide \in [1 .. k -> NodeRec] /\ c \in 1 .. k
  BY <1>4, ArenaFunction
<1>6. /\ out \in Arena /\ Len(out) = k
      /\ \A m \in 1 .. k :
            /\ out[m].item = wide[m].item /\ out[m].degree = wide[m].degree
            /\ out[m].parent = IF m = c THEN Null ELSE wide[m].parent
            /\ out[m].child = wide[m].child
            /\ out[m].right = wide[m].right /\ out[m].left = wide[m].left
  <2> HIDE DEF k
  <2>1. out \in [1 .. k -> NodeRec]
    BY <1>0, <1>5 DEF NodeRec
  <2>2. ASSUME NEW m \in 1 .. k
        PROVE  /\ out[m].item = wide[m].item /\ out[m].degree = wide[m].degree
               /\ out[m].parent = IF m = c THEN Null ELSE wide[m].parent
               /\ out[m].child = wide[m].child
               /\ out[m].right = wide[m].right /\ out[m].left = wide[m].left
    BY <1>0, <1>5 DEF NodeRec
  <2> HIDE DEF out
  <2>3. out \in Arena /\ Len(out) = k
    BY <1>0, <2>1, FunctionArena
  <2> QED BY <2>2, <2>3
<1> HIDE DEF out
<1>7. \A m \in 1 .. k :
          /\ out[m].item = ns[m].item /\ out[m].degree = ns[m].degree
          /\ out[m].child = ns[m].child
          /\ out[m].parent = IF m = c THEN Null ELSE ns[m].parent
          /\ m \notin S \cup {c} => out[m].right = ns[m].right /\ out[m].left = ns[m].left
  <2> TAKE m \in 1 .. k
  <2>1. m \notin S \cup {c} => m # rt /\ m # c /\ m # ns[rt].right
    BY <1>2
  <2> QED BY <1>4, <1>6, <2>1
<1>8. Cycle(out, S \cup {c})
  <2>1. \A m \in S \cup {c} : m \in 1 .. k
    OBVIOUS
  <2>2. \A m \in S \cup {c} :
            /\ out[m].right = IF m = rt THEN c ELSE IF m = c THEN ns[rt].right ELSE ns[m].right
            /\ out[m].left = IF m = ns[rt].right THEN c ELSE IF m = c THEN rt ELSE ns[m].left
    BY <1>4, <1>6, <2>1
  <2> QED BY <2>2, CycleInsert
<1>9. u.nodes = out
  BY <1>1
<1>10. u = [nodes |-> u.nodes, root |-> rt]
  BY <1>1, <1>9
<1>11. \A m \in 1 .. Len(ns) :
          /\ out[m].item = ns[m].item /\ out[m].degree = ns[m].degree
          /\ out[m].child = ns[m].child
          /\ out[m].parent = IF m \in {c} THEN Null ELSE ns[m].parent
          /\ m \notin S \cup {c} => out[m].right = ns[m].right /\ out[m].left = ns[m].left
  BY <1>7 DEF k
<1>12. Joins(ns, S, rt, {c}, u)
  BY <1>6, <1>8, <1>9, <1>10, <1>11 DEF Joins, k
<1> QED BY <1>12 DEF u

Joining(t, s, k, f) == f = [i \in 0 .. k |-> IF i = 0 THEN t ELSE Joined(f[i - 1], s[i])]

LEMMA JoiningExists ==
    ASSUME NEW t, NEW s, NEW b \in Nat
    PROVE  \E f : Joining(t, s, b, f)
<1> DEFINE Missing == {n \in Nat : ~\E f : Joining(t, s, n, f)}
<1> SUFFICES ASSUME Missing # {} PROVE FALSE
  OBVIOUS
<1>1. PICK k \in Missing : \A j \in Missing : k <= j
  BY LeastMember
<1>2. k \in Nat /\ ~\E f : Joining(t, s, k, f)
  BY <1>1
<1>3. CASE k = 0
  <2> DEFINE f == [n \in 0 .. 0 |-> t]
  <2>1. f = [n \in 0 .. 0 |-> IF n = 0 THEN t ELSE Joined(f[n - 1], s[n])]
    OBVIOUS
  <2> QED BY <1>2, <1>3, <2>1 DEF Joining
<1>4. CASE k # 0
  <2> DEFINE j == k - 1
  <2>1. j \in Nat /\ k = j + 1 /\ ~(k <= j)
    BY <1>2, <1>4
  <2> HIDE DEF j
  <2>2. j \notin Missing
    BY <1>1, <2>1
  <2>3. PICK f : Joining(t, s, j, f)
    BY <2>1, <2>2
  <2> DEFINE g == [n \in 0 .. k |-> IF n = k THEN Joined(f[j], s[k]) ELSE f[n]]
  <2>4. \A n \in 0 .. j : f[n] = IF n = 0 THEN t ELSE Joined(f[n - 1], s[n])
    BY <2>3 DEF Joining
  <2>5. ASSUME NEW n \in 0 .. k
        PROVE  g[n] = IF n = 0 THEN t ELSE Joined(g[n - 1], s[n])
    <3>1. CASE n = k
      <4>1. n # 0 /\ n - 1 = j /\ j \in 0 .. k /\ j # k
        BY <2>1, <3>1
      <4>2. g[n] = Joined(f[j], s[k]) /\ g[n - 1] = f[j]
        BY <3>1, <4>1
      <4> QED BY <3>1, <4>1, <4>2
    <3>2. CASE n # k /\ n # 0
      <4>1. n \in 0 .. j /\ n - 1 \in 0 .. k /\ n - 1 # k
        BY <2>1, <3>2
      <4>2. g[n] = f[n] /\ g[n - 1] = f[n - 1]
        BY <3>2, <4>1
      <4> QED BY <2>4, <3>2, <4>1, <4>2
    <3>3. CASE n = 0
      <4>1. 0 \in 0 .. j /\ 0 # k /\ 0 \in 0 .. k
        BY <2>1
      <4>2. f[0] = t
        BY <2>4, <4>1
      <4> QED BY <3>3, <4>1, <4>2
    <3> QED BY <3>1, <3>2, <3>3
  <2>6. g = [n \in 0 .. k |-> g[n]]
    OBVIOUS
  <2> HIDE DEF g
  <2>7. g = [n \in 0 .. k |-> IF n = 0 THEN t ELSE Joined(g[n - 1], s[n])]
    BY <2>5, <2>6
  <2> QED BY <1>2, <2>7 DEF Joining
<1> QED BY <1>3, <1>4

FirstOf(s, i) == {s[j] : j \in 1 .. i}

LEMMA JoinAll ==
    ASSUME NEW ns \in Arena, NEW S \in SUBSET (1 .. Len(ns)), Cycle(ns, S), NEW rt \in S,
           NEW C \in SUBSET (1 .. Len(ns)), S \cap C = {},
           NEW s \in Seq(C), \A i, j \in 1 .. Len(s) : s[i] = s[j] => i = j,
           NEW f, Joining([nodes |-> ns, root |-> rt], s, Len(s), f)
    PROVE  \A i \in 0 .. Len(s) : Joins(ns, S, rt, FirstOf(s, i), f[i])
<1> DEFINE Good(i) == Joins(ns, S, rt, FirstOf(s, i), f[i])
           Wrong == {i \in 0 .. Len(s) : ~Good(i)}
<1> SUFFICES ASSUME Wrong # {} PROVE FALSE
  OBVIOUS
<1>0. Len(s) \in Nat /\ \A i \in 1 .. Len(s) : s[i] \in C
  OBVIOUS
<1>1. \A i \in 0 .. Len(s) : f[i] = IF i = 0 THEN [nodes |-> ns, root |-> rt] ELSE Joined(f[i - 1], s[i])
  BY DEF Joining
<1>2. Good(0)
  <2>1. f[0] = [nodes |-> ns, root |-> rt]
    BY <1>0, <1>1
  <2>2. FirstOf(s, 0) = {}
    BY DEF FirstOf
  <2>3. Cycle(ns, S \cup FirstOf(s, 0))
    BY <2>2
  <2>4. f[0].nodes = ns
    BY <2>1
  <2> QED BY <2>1, <2>2, <2>3, <2>4 DEF Joins
<1> HIDE DEF Good
<1>3. PICK i \in Wrong : \A j \in Wrong : i <= j
  <2>1. Wrong \in SUBSET Nat
    BY <1>0
  <2> QED BY <2>1, LeastMember
<1>4. i \in 1 .. Len(s) /\ i - 1 \in 0 .. Len(s) /\ ~(i <= i - 1) /\ i # 0 /\ i \in 0 .. Len(s) /\ ~Good(i)
  <2>1. i \in 0 .. Len(s) /\ i # 0 /\ ~Good(i)
    BY <1>2, <1>3
  <2> QED BY <1>0, <2>1
<1>5. Good(i - 1)
  BY <1>3, <1>4
<1> DEFINE j == i - 1
           P == FirstOf(s, j)
           os == f[j].nodes
           U == S \cup P
           c == s[i]
           u == Joined([nodes |-> os, root |-> rt], c)
<1>6. Joins(ns, S, rt, P, f[j])
  BY <1>5 DEF Good
<1>7. /\ f[j] = [nodes |-> os, root |-> rt]
      /\ os \in Arena /\ Len(os) = Len(ns) /\ Cycle(os, U)
  BY <1>6 DEF Joins
<1>8. f[i] = u
  BY <1>1, <1>4, <1>7
<1>9. c \in C /\ c \notin U /\ U \in SUBSET (1 .. Len(ns)) /\ P \subseteq C
  <2>1. \A b \in 1 .. j : b \in 1 .. Len(s) /\ b # i
    BY <1>0, <1>4
  <2> QED BY <1>0, <1>4, <2>1 DEF FirstOf
<1>10. FirstOf(s, i) = P \cup {c}
  <2>1. 1 .. i = (1 .. j) \cup {i}
    BY <1>4
  <2> HIDE DEF j
  <2> QED BY <2>1 DEF FirstOf
<1> HIDE DEF j, P, c
<1>11. \A m \in 1 .. Len(ns) :
           /\ os[m].item = ns[m].item /\ os[m].degree = ns[m].degree
           /\ os[m].child = ns[m].child
           /\ os[m].parent = IF m \in P THEN Null ELSE ns[m].parent
           /\ m \notin U => os[m].right = ns[m].right /\ os[m].left = ns[m].left
  BY <1>6 DEF Joins
<1> HIDE DEF os, U
<1>12. Joins(os, U, rt, {c}, u)
  <2>1. rt \in U
    BY DEF U
  <2>2. U \in SUBSET (1 .. Len(os)) /\ c \in 1 .. Len(os)
    BY <1>7, <1>9
  <2>3. os \in Arena /\ Cycle(os, U) /\ c \notin U
    BY <1>7, <1>9
  <2> QED BY <2>1, <2>2, <2>3, JoinOne
<1> HIDE DEF u
<1>13. U \cup {c} = S \cup FirstOf(s, i)
  BY <1>10 DEF U
<1>14. \A m \in 1 .. Len(ns) :
           /\ u.nodes[m].item = ns[m].item /\ u.nodes[m].degree = ns[m].degree
           /\ u.nodes[m].child = ns[m].child
           /\ u.nodes[m].parent = IF m \in FirstOf(s, i) THEN Null ELSE ns[m].parent
           /\ m \notin S \cup FirstOf(s, i) =>
                u.nodes[m].right = ns[m].right /\ u.nodes[m].left = ns[m].left
  <2> TAKE m \in 1 .. Len(ns)
  <2>0. \A q \in 1 .. Len(os) :
          /\ u.nodes[q].item = os[q].item /\ u.nodes[q].degree = os[q].degree
          /\ u.nodes[q].child = os[q].child
          /\ u.nodes[q].parent = IF q \in {c} THEN Null ELSE os[q].parent
          /\ q \notin U \cup {c} =>
                u.nodes[q].right = os[q].right /\ u.nodes[q].left = os[q].left
    BY <1>12 DEF Joins
  <2>1. m \in 1 .. Len(os)
    BY <1>7
  <2>2. m \notin S \cup FirstOf(s, i) => m \notin U /\ m \notin U \cup {c}
    BY <1>13
  <2>3. u.nodes[m].parent = IF m \in FirstOf(s, i) THEN Null ELSE ns[m].parent
    BY <1>10, <1>11, <2>0, <2>1
  <2> QED BY <1>11, <2>0, <2>1, <2>2, <2>3
<1>15. u = [nodes |-> u.nodes, root |-> rt] /\ u.nodes \in Arena /\ Len(u.nodes) = Len(ns)
  BY <1>7, <1>12 DEF Joins
<1>16. Cycle(u.nodes, S \cup FirstOf(s, i))
  BY <1>12, <1>13 DEF Joins
<1>17. Good(i)
  BY <1>8, <1>14, <1>15, <1>16 DEF Good, Joins
<1> QED BY <1>4, <1>17

(* The roots once z is gone; t is the heap without it.                      *)
Heirs(ns, L, z) == (Kids(ns, L, Null) \cup Kids(ns, L, z)) \ {z}

Vacated(ns, L, z, W, t) ==
    /\ ns[z].child # Null => ComesRound(ns, ns[z].child)
    /\ t.nodes \in Arena /\ Len(t.nodes) = Len(ns)
    /\ \A m \in 1 .. Len(ns) :
         t.nodes[m].item = ns[m].item /\ t.nodes[m].degree = ns[m].degree
    /\ W = {} => t.nodes[z].right = z /\ L = {z}
    /\ W # {} => /\ t.nodes[z].right \in W /\ t.root \in W
                 /\ Forest(t.nodes, t.root, L \ {z})
                 /\ Kids(t.nodes, L \ {z}, Null) = W

LEMMA WithoutForest ==
    ASSUME nodes \in Arena, NEW L, Forest(nodes, root, L), NEW z \in Kids(nodes, L, Null)
    PROVE  Vacated(nodes, L, z, Heirs(nodes, L, z), Without(z))
<1> DEFINE R == Kids(nodes, L, Null)
           C == Kids(nodes, L, z)
           W == (R \cup C) \ {z}
           k == Len(nodes)
           s == IF nodes[z].child = Null THEN <<>> ELSE Ring(nodes, nodes[z].child)
           f == CHOOSE g : Joining([nodes |-> nodes, root |-> root], s, Len(s), g)
           t == Without(z)
           os == f[Len(s)].nodes
<1>0. k \in Nat
  BY ArenaFunction
<1>1. /\ R \subseteq L /\ C \subseteq L /\ L \subseteq 1 .. k /\ z \notin C /\ Null \notin L
      /\ R \cap C = {} /\ z \in L /\ nodes[z].parent = Null /\ z \in R
  BY ForestFacts DEF Kids
<1>2. /\ root \in R /\ Cycle(nodes, R) /\ Cycle(nodes, C) /\ Heads(C, nodes[z].child)
  <2>1. Heads(R, root)
    BY DEF Forest
  <2> QED BY <1>1, <2>1 DEF Heads, Forest
<1> HIDE DEF R, C
<1>3. /\ nodes[z].child # Null => ComesRound(nodes, nodes[z].child)
      /\ s \in Seq(C) /\ Range(s) = C /\ \A i, j \in 1 .. Len(s) : s[i] = s[j] => i = j
  <2>1. CASE nodes[z].child = Null
    <3>1. s = <<>> /\ C = {}
      BY <1>2, <2>1 DEF Heads
    <3> HIDE DEF s, C
    <3> QED BY <2>1, <3>1 DEF Range
  <2>2. CASE nodes[z].child # Null
    <3>1. nodes[z].child \in C
      BY <1>2, <2>2 DEF Heads
    <3>2. C \in SUBSET (1 .. Len(nodes))
      BY <1>1
    <3> QED BY <1>2, <2>2, <3>1, <3>2, RingOfCycle
  <2> QED BY <2>1, <2>2
<1> HIDE DEF s
<1>4. Joining([nodes |-> nodes, root |-> root], s, Len(s), f)
  <2>1. Len(s) \in Nat
    BY <1>3
  <2> QED BY <2>1, JoiningExists
<1>5. t = RemoveFromRoot(f[Len(s)], z)
  BY DEF Without, Joining, Joined, s
<1> HIDE DEF f, t
<1>6. Len(s) \in 0 .. Len(s) /\ FirstOf(s, Len(s)) = C
  <2>1. Len(s) \in Nat /\ DOMAIN s = 1 .. Len(s)
    BY <1>3
  <2> QED BY <1>3, <2>1 DEF FirstOf, Range
<1>7. /\ f[Len(s)] = [nodes |-> os, root |-> root]
      /\ os \in Arena /\ Len(os) = k
      /\ Cycle(os, R \cup C)
      /\ \A m \in 1 .. k :
           /\ os[m].item = nodes[m].item /\ os[m].degree = nodes[m].degree
           /\ os[m].child = nodes[m].child
           /\ os[m].parent = IF m \in C THEN Null ELSE nodes[m].parent
           /\ m \notin R \cup C => os[m].right = nodes[m].right /\ os[m].left = nodes[m].left
  <2>1. R \in SUBSET (1 .. Len(nodes)) /\ C \in SUBSET (1 .. Len(nodes))
    BY <1>1
  <2>3. R \cap C = {} /\ root \in R /\ Cycle(nodes, R)
    BY <1>1, <1>2
  <2>2. \A i \in 0 .. Len(s) : Joins(nodes, R, root, FirstOf(s, i), f[i])
    BY <1>3, <1>4, <2>1, <2>3, JoinAll
  <2>4. Joins(nodes, R, root, C, f[Len(s)])
    BY <1>6, <2>2
  <2> QED BY <2>4 DEF Joins
<1> HIDE DEF os
<1>8. z \in R \cup C /\ os[z].left \in R \cup C /\ os[z].right \in R \cup C
  BY <1>1, <1>7 DEF Cycle
<1>9. z \in 1 .. k /\ os[z].left \in 1 .. k /\ os[z].right \in 1 .. k
  BY <1>1, <1>8
<1> DEFINE out == t.nodes
<1>10. /\ t = [nodes |-> out, root |-> IF root = z THEN os[z].right ELSE root]
       /\ out \in Arena /\ Len(out) = k
       /\ \A m \in 1 .. k :
            /\ out[m].item = os[m].item /\ out[m].degree = os[m].degree
            /\ out[m].parent = os[m].parent /\ out[m].child = os[m].child
            /\ out[m].right = IF m = os[z].left THEN os[z].right ELSE os[m].right
            /\ out[m].left = IF m = os[z].right THEN os[z].left ELSE os[m].left
  <2>1. t = RemoveFromRoot([nodes |-> os, root |-> root], z)
    BY <1>5, <1>7
  <2> QED BY <1>7, <1>9, <2>1, RemoveFacts
<1>11. t.root = IF root = z THEN os[z].right ELSE root
  BY <1>10
<1> HIDE DEF out
<1>12. \A m \in 1 .. k :
            /\ out[m].item = nodes[m].item /\ out[m].degree = nodes[m].degree
            /\ out[m].parent = IF m \in C THEN Null ELSE nodes[m].parent
            /\ out[m].child = nodes[m].child
  BY <1>7, <1>10
<1>13. CASE W = {}
  <2>1. R \cup C = {z}
    BY <1>1, <1>13
  <2>2. out[z].right = z
    BY <1>8, <1>9, <1>10, <2>1
  <2>3. R = {z} /\ C = {}
    BY <1>1, <2>1
  <2>4. ASSUME NEW n \in L PROVE n = z
    <3>1. PICK r \in R : nodes[r].item <= nodes[n].item /\ (n = r \/ Kids(nodes, L, r) # {})
      BY RootAbove DEF R
    <3> QED BY <2>3, <3>1 DEF C
  <2> QED BY <1>1, <1>3, <1>10, <1>12, <1>13, <2>2, <2>4 DEF Vacated, Heirs, out, t, k, R, C
<1>14. CASE W # {}
  <2>1. \A m \in R \cup C :
            /\ out[m].right = IF m = os[z].left THEN os[z].right ELSE os[m].right
            /\ out[m].left = IF m = os[z].right THEN os[z].left ELSE os[m].left
    <3> TAKE m \in R \cup C
    <3>1. m \in 1 .. k
      BY <1>1
    <3> QED BY <1>10, <3>1
  <2>2. Cycle(out, W) /\ os[z].right \in W /\ out[z].right = os[z].right
    <3> DEFINE Q == R \cup C
    <3>1. Q # {z} /\ z \in Q /\ Cycle(os, Q) /\ W = Q \ {z}
      BY <1>7, <1>8, <1>14
    <3>2. \A m \in Q :
            /\ out[m].right = IF m = os[z].left THEN os[z].right ELSE os[m].right
            /\ out[m].left = IF m = os[z].right THEN os[z].left ELSE os[m].left
      BY <2>1
    <3> HIDE DEF Q
    <3>3. Q # {z}
      BY <3>1
    <3>4. z \in Q
      BY <3>1
    <3>5. Cycle(os, Q)
      BY <3>1
    <3>6. /\ Cycle(out, Q \ {z})
          /\ os[z].right \in Q \ {z} /\ os[z].left \in Q \ {z}
          /\ out[z].right = os[z].right
      BY <3>2, <3>3, <3>4, <3>5, CycleRemove, Zenon
    <3> QED BY <3>1, <3>6, Zenon
  <2>3. t.root \in W
    BY <1>2, <1>11, <2>2
  <2>4. \A m \in L \ (R \cup C) : out[m].right = nodes[m].right /\ out[m].left = nodes[m].left
    <3> TAKE m \in L \ (R \cup C)
    <3>1. m \in 1 .. k /\ m # os[z].left /\ m # os[z].right
      BY <1>1, <1>8
    <3> QED BY <1>7, <1>10, <3>1
  <2>5. Forest(out, t.root, L \ {z})
    BY <1>10, <1>12, <2>2, <2>3, <2>4, ForestPops DEF R, C
  <2>6. Kids(out, L \ {z}, Null) = W
    <3>1. \A m \in L : out[m].parent = IF m \in C THEN Null ELSE nodes[m].parent
      BY <1>1, <1>12
    <3> QED BY <1>1, <3>1 DEF Kids, R, C
  <2> QED BY <1>3, <1>10, <1>12, <1>14, <2>2, <2>3, <2>5, <2>6 DEF Vacated, Heirs, out, t, k, R, C
<1> QED BY <1>13, <1>14

-----------------------------------------------------------------------------
(* Frames *)

LEMMA Counted ==
    ASSUME NEW k \in Nat \ {0}
    PROVE  k = 1 \/ (k > 1 /\ k \in 2 .. k)
  OBVIOUS

LEMMA JustOne ==
    ASSUME NEW k \in Nat \ {0}, k <= 1
    PROVE  k = 1
  OBVIOUS

LEMMA SeqWidens ==
    ASSUME NEW A, NEW B, A \subseteq B, NEW s \in Seq(A)
    PROVE  s \in Seq(B)
<1>1. Len(s) \in Nat /\ s = [i \in 1 .. Len(s) |-> s[i]] /\ \A i \in 1 .. Len(s) : s[i] \in A
  OBVIOUS
<1> DEFINE k == Len(s)
<1> HIDE DEF k
<1>2. s \in [1 .. k -> B]
  BY <1>1 DEF k
<1> QED BY <1>1, <1>2 DEF k

LEMMA FrontFacts ==
    ASSUME NEW F, NEW s \in Seq(F), s # <<>>
    PROVE  LET rest == SubSeq(s, 1, Len(s) - 1)
           IN  /\ Len(s) \in Nat \ {0} /\ rest \in Seq(F) /\ Len(rest) = Len(s) - 1
               /\ \A i \in 1 .. Len(rest) : rest[i] = s[i] /\ i \in 1 .. Len(s)
               /\ rest = <<>> <=> Len(rest) = 0
<1>1. Len(s) \in Nat /\ \A i \in 1 .. Len(s) : s[i] \in F
  OBVIOUS
<1>2. Len(s) # 0
  BY EmptySeq
<1> DEFINE one == 1
           k == Len(s) - 1
           rest == SubSeq(s, one, k)
<1>3. /\ one \in Int /\ k \in Nat /\ k \in Int /\ k = (k - one) + 1 /\ (one <= k \/ k = 0) /\ Len(s) = k + 1
      /\ \A i \in one .. k : s[i] \in F
      /\ \A i \in 1 .. k : (one + i) - 1 = i /\ i \in 1 .. (k - one) + 1
  <2>1. Len(s) \in Nat /\ Len(s) # 0 /\ one = 1 /\ k = Len(s) - 1
    BY <1>1, <1>2
  <2> HIDE DEF one, k
  <2>2. k \in Nat /\ k \in Int /\ Len(s) = k + 1 /\ one \in Int
    BY <2>1
  <2>3. k = (k - one) + 1 /\ (one <= k \/ k = 0)
    BY <2>1, <2>2
  <2>4. \A i \in 1 .. k : (one + i) - 1 = i /\ i \in 1 .. (k - one) + 1
    BY <2>1, <2>2
  <2>5. \A i \in one .. k : i \in 1 .. Len(s)
    BY <2>1, <2>2
  <2> QED BY <1>1, <2>2, <2>3, <2>4, <2>5
<1>4. rest = SubSeq(s, 1, Len(s) - 1)
  OBVIOUS
<1> HIDE DEF k, one, rest
<1>5. /\ SubSeq(s, one, k) \in Seq(F)
      /\ Len(SubSeq(s, one, k)) = IF one <= k THEN k - one + 1 ELSE 0
      /\ \A i \in 1 .. k - one + 1 : SubSeq(s, one, k)[i] = s[one + i - 1]
  BY <1>3, SubSeqProperties
<1>6. rest \in Seq(F) /\ Len(rest) = k /\ \A i \in 1 .. k : rest[i] = s[i]
  <2>1. rest \in Seq(F)
    BY <1>5 DEF rest
  <2>2. Len(rest) = k
    BY <1>3, <1>5 DEF rest
  <2>3. \A i \in 1 .. k : rest[i] = s[i]
    BY <1>3, <1>5 DEF rest
  <2> QED BY <2>1, <2>2, <2>3
<1>7. rest = <<>> <=> Len(rest) = 0
  BY <1>6, EmptySeq
<1>8. /\ Len(s) \in Nat \ {0} /\ rest \in Seq(F) /\ Len(rest) = Len(s) - 1
      /\ \A i \in 1 .. Len(rest) : rest[i] = s[i] /\ i \in 1 .. Len(s)
      /\ rest = <<>> <=> Len(rest) = 0
  BY <1>1, <1>2, <1>3, <1>6, <1>7
<1> QED BY <1>4, <1>8

LEMMA FramesTop ==
    ASSUME NEW fs, NEW ns, NEW L, FramesFit(fs, ns, L), fs # <<>>
    PROVE  LET top == fs[Len(fs)]
           IN  /\ Len(fs) \in Nat \ {0}
               /\ top.at # "tie" => Len(fs) = 1 /\ Popping(fs) /\ top \in PopFrame
               /\ top.at = "tie" => top \in TieFrame /\ top.x \in Tops(ns, L) \ Waiting(fs)
                                    /\ top.b \in 1 .. Len(ns)
<1>1. /\ fs \in Seq(TieFrame \cup PopFrame)
      /\ \A i \in 1 .. Len(fs) :
          fs[i].at = "tie" => fs[i].x \in Tops(ns, L) \ Waiting(fs) /\ fs[i].b \in 1 .. Len(ns)
      /\ \A i \in 2 .. Len(fs) : fs[i].at = "tie"
  BY DEF FramesFit
<1>2. Len(fs) \in Nat \ {0} /\ fs[Len(fs)] \in TieFrame \cup PopFrame
  BY <1>1
<1>3. fs[Len(fs)].at # "tie" => Len(fs) = 1 /\ Popping(fs)
  <2>1. Len(fs) # 1 => Len(fs) \in 2 .. Len(fs)
    BY <1>2, Counted
  <2>2. fs[Len(fs)].at # "tie" => Len(fs) = 1
    BY <1>1, <2>1
  <2> QED BY <2>2 DEF Popping
<1>4. /\ fs[Len(fs)].at # "tie" => fs[Len(fs)] \in PopFrame
      /\ fs[Len(fs)].at = "tie" => fs[Len(fs)] \in TieFrame
  BY <1>2 DEF TieFrame, PopFrame
<1> QED BY <1>1, <1>2, <1>3, <1>4

LEMMA FramesPushed ==
    ASSUME NEW fs, NEW ns, NEW L, FramesFit(fs, ns, L),
           fs = <<>> \/ fs[Len(fs)].at \in Comparing,
           NEW out, NEW M, Tops(ns, L) \subseteq Tops(out, M),
           Len(ns) \in Nat, Len(out) \in Nat, Len(ns) <= Len(out),
           NEW n \in Nat, n \in Tops(out, M) \ Waiting(fs), NEW b \in 1 .. Len(out)
    PROVE  LET wide == Append(fs, [at |-> "tie", x |-> n, b |-> b])
           IN  /\ FramesFit(wide, out, M) /\ Len(wide) = Len(fs) + 1
               /\ Popping(wide) <=> Popping(fs)
               /\ Popping(fs) => wide[1] = fs[1]
               /\ fs = <<>> => wide[1].x = n /\ wide[1].b = b
<1> DEFINE t == [at |-> "tie", x |-> n, b |-> b]
           wide == Append(fs, t)
           F == TieFrame \cup PopFrame
<1>1. /\ fs \in Seq(F)
      /\ \A i \in 1 .. Len(fs) :
          fs[i].at = "tie" => fs[i].x \in Tops(ns, L) \ Waiting(fs) /\ fs[i].b \in 1 .. Len(ns)
      /\ \A i \in 2 .. Len(fs) : fs[i].at = "tie"
      /\ Popping(fs) /\ Len(fs) > 1 => fs[1].at \in {"link", "scan"}
  BY DEF FramesFit
<1>2. t \in F /\ t.at = "tie" /\ t.x = n /\ t.b = b
  BY DEF TieFrame
<1> HIDE DEF t, F
<1>3. /\ wide \in Seq(F) /\ Len(wide) = Len(fs) + 1 /\ Len(fs) \in Nat
      /\ \A i \in 1 .. Len(fs) : wide[i] = fs[i]
      /\ wide[Len(fs) + 1] = t /\ wide # <<>>
  <2>1. Len(wide) = Len(fs) + 1 /\ Len(fs) \in Nat
    BY <1>1
  <2>2. wide \in Seq(F)
    BY <1>1, <1>2
  <2>3. \A i \in 1 .. Len(fs) : wide[i] = fs[i]
    BY <1>1
  <2>4. wide[Len(fs) + 1] = t
    BY <1>1
  <2> QED BY <2>1, <2>2, <2>3, <2>4
<1>4. fs = <<>> => Len(fs) = 0
  OBVIOUS
<1>5. fs # <<>> => Len(fs) # 0 /\ wide[1] = fs[1]
  BY <1>1, <1>3
<1> HIDE DEF wide
<1>6. (Popping(wide) <=> Popping(fs)) /\ (fs = <<>> => wide[1] = t)
  BY <1>2, <1>3, <1>4, <1>5 DEF Popping
<1>7. Waiting(wide) = Waiting(fs)
  BY <1>5, <1>6 DEF Waiting, Popping
<1>8. ASSUME NEW i \in 1 .. Len(wide), wide[i].at = "tie"
      PROVE  wide[i].x \in Tops(out, M) \ Waiting(wide) /\ wide[i].b \in 1 .. Len(out)
  <2>1. CASE i = Len(fs) + 1
    BY <1>2, <1>3, <1>7, <2>1
  <2>2. CASE i # Len(fs) + 1
    <3>1. i \in 1 .. Len(fs)
      BY <1>3, <2>2
    <3>2. wide[i] = fs[i] /\ fs[i].at = "tie"
      BY <1>3, <1>8, <3>1
    <3>3. fs[i].x \in Tops(ns, L) \ Waiting(fs) /\ fs[i].b \in 1 .. Len(ns)
      BY <1>1, <3>1, <3>2
    <3> QED BY <1>7, <3>2, <3>3
  <2> QED BY <2>1, <2>2
<1>9. \A i \in 2 .. Len(wide) : wide[i].at = "tie"
  <2> TAKE i \in 2 .. Len(wide)
  <2>1. i = Len(fs) + 1 \/ i \in 2 .. Len(fs)
    BY <1>3
  <2>2. i \in 2 .. Len(fs) => i \in 1 .. Len(fs)
    BY <1>3
  <2> QED BY <1>1, <1>2, <1>3, <2>1, <2>2
<1>10. Popping(wide) => wide[1].at \in {"link", "scan"}
  <2> SUFFICES ASSUME Popping(wide) PROVE wide[1].at \in {"link", "scan"}
    OBVIOUS
  <2>1. Popping(fs) /\ fs # <<>> /\ wide[1] = fs[1]
    BY <1>5, <1>6 DEF Popping
  <2>2. CASE Len(fs) > 1
    BY <1>1, <2>1, <2>2
  <2>3. CASE Len(fs) = 1
    BY <2>1, <2>3 DEF Popping, Comparing
  <2>4. Len(fs) > 1 \/ Len(fs) = 1
    <3>1. Len(fs) \in Nat \ {0}
      BY <1>1, <2>1, FrontFacts, Zenon
    <3> QED BY <3>1, Counted
  <2> QED BY <2>2, <2>3, <2>4
<1>11. FramesFit(wide, out, M)
  BY <1>3, <1>8, <1>9, <1>10 DEF FramesFit, F
<1>12. Popping(fs) => wide[1] = fs[1]
  BY <1>5 DEF Popping
<1> QED BY <1>2, <1>3, <1>6, <1>11, <1>12 DEF wide, t

LEMMA FramesReturned ==
    ASSUME NEW fs, NEW ns, NEW L, FramesFit(fs, ns, L), fs # <<>>, fs[Len(fs)].at = "tie"
    PROVE  LET rest == SubSeq(fs, 1, Len(fs) - 1)
           IN  /\ FramesFit(rest, ns, L) /\ Len(rest) = Len(fs) - 1
               /\ Popping(rest) <=> Popping(fs)
               /\ Popping(fs) => rest[1] = fs[1]
<1> DEFINE rest == SubSeq(fs, 1, Len(fs) - 1)
           F == TieFrame \cup PopFrame
<1>1. /\ fs \in Seq(F)
      /\ \A i \in 1 .. Len(fs) :
          fs[i].at = "tie" => fs[i].x \in Tops(ns, L) \ Waiting(fs) /\ fs[i].b \in 1 .. Len(ns)
      /\ \A i \in 2 .. Len(fs) : fs[i].at = "tie"
      /\ Popping(fs) /\ Len(fs) > 1 => fs[1].at \in {"link", "scan"}
  BY DEF FramesFit
<1> HIDE DEF F
<1>2. /\ rest \in Seq(F) /\ Len(rest) = Len(fs) - 1 /\ Len(fs) \in Nat /\ Len(fs) # 0
      /\ \A i \in 1 .. Len(rest) : rest[i] = fs[i] /\ i \in 1 .. Len(fs)
      /\ rest = <<>> <=> Len(rest) = 0
  <2>1. /\ Len(fs) \in Nat \ {0} /\ rest \in Seq(F) /\ Len(rest) = Len(fs) - 1
        /\ \A i \in 1 .. Len(rest) : rest[i] = fs[i] /\ i \in 1 .. Len(fs)
        /\ rest = <<>> <=> Len(rest) = 0
    BY <1>1, FrontFacts, Zenon
  <2> HIDE DEF rest
  <2> QED BY <2>1
<1> HIDE DEF rest
<1>3. /\ rest = <<>> <=> Len(rest) = 0
      /\ rest # <<>> => rest[1] = fs[1]
  <2>2. Len(rest) # 0 => 1 \in 1 .. Len(rest)
    BY <1>2
  <2> QED BY <1>2, <2>2
<1>4. (Popping(rest) <=> Popping(fs)) /\ (Popping(fs) => rest[1] = fs[1])
  <2>1. CASE rest = <<>>
    <3>1. Len(fs) = 1
      BY <1>2, <1>3, <2>1
    <3> QED BY <2>1, <3>1 DEF Popping
  <2>2. CASE rest # <<>>
    BY <1>3, <2>2 DEF Popping
  <2> QED BY <2>1, <2>2
<1>5. Waiting(rest) = Waiting(fs)
  BY <1>4 DEF Waiting
<1>6. \A i \in 1 .. Len(rest) :
          rest[i].at = "tie" => rest[i].x \in Tops(ns, L) \ Waiting(rest) /\ rest[i].b \in 1 .. Len(ns)
  BY <1>1, <1>2, <1>5
<1>7. \A i \in 2 .. Len(rest) : rest[i].at = "tie"
  <2> TAKE i \in 2 .. Len(rest)
  <2>1. i \in 1 .. Len(rest) /\ i \in 2 .. Len(fs)
    BY <1>2
  <2> QED BY <1>1, <1>2, <2>1
<1>8. Popping(rest) /\ Len(rest) > 1 => rest[1].at \in {"link", "scan"}
  BY <1>1, <1>2, <1>4
<1>9. FramesFit(rest, ns, L)
  BY <1>2, <1>6, <1>7, <1>8 DEF FramesFit, F
<1> QED BY <1>2, <1>4, <1>9 DEF rest

LEMMA FramesSingle ==
    ASSUME NEW f \in PopFrame, NEW ns, NEW L
    PROVE  /\ FramesFit(<<f>>, ns, L) /\ Popping(<<f>>) /\ Len(<<f>>) = 1
           /\ <<f>>[1] = f /\ Waiting(<<f>>) = Pending(f)
<1>1. f.at # "tie"
  BY DEF PopFrame
<1>2. <<f>> \in Seq(TieFrame \cup PopFrame) /\ Len(<<f>>) = 1 /\ <<f>>[1] = f /\ <<f>> # <<>>
  OBVIOUS
<1>3. Popping(<<f>>)
  BY <1>1, <1>2 DEF Popping
<1>4. \A i \in 1 .. Len(<<f>>) : <<f>>[i].at # "tie"
  BY <1>1, <1>2
<1>5. FramesFit(<<f>>, ns, L)
  BY <1>2, <1>4 DEF FramesFit
<1> QED BY <1>2, <1>3, <1>5 DEF Waiting

-----------------------------------------------------------------------------
(* The pop under way, when the heap changes around it *)

LEMMA TopsIn ==
    ASSUME NEW ns \in Arena, NEW rt, NEW L, Forest(ns, rt, L)
    PROVE  /\ Tops(ns, L) \subseteq L /\ L \subseteq 1 .. Len(ns) /\ Null \notin L
           /\ Len(ns) \in Nat /\ \A n \in 1 .. Len(ns) : n \in Nat /\ n # Null
           /\ \A n \in 1 .. Len(ns) : ns[n].item \in Items /\ ns[n].item \in Int /\ ns[n].degree \in Nat
<1>1. ns \in [1 .. Len(ns) -> NodeRec] /\ Len(ns) \in Nat
  BY ArenaFunction
<1>2. \A n \in 1 .. Len(ns) : ns[n] \in NodeRec /\ n # Null
  BY <1>1 DEF Null
<1>3. \A n \in 1 .. Len(ns) : ns[n].item \in Items /\ ns[n].item \in Int /\ ns[n].degree \in Nat
  BY <1>2, BoundsAssumption DEF NodeRec
<1> QED BY <1>1, <1>2, <1>3 DEF Tops, Kids, Forest

LEMMA PopFitsStays ==
    ASSUME NEW f, NEW ns, NEW L, PopFits(f, ns, L),
           NEW out, NEW M, Tops(ns, L) \subseteq Tops(out, M), f.z \notin M,
           Tops(ns, L) \subseteq 1 .. Len(ns),
           Len(ns) \in Nat, Len(out) \in Nat, Len(ns) <= Len(out),
           \A m \in 1 .. Len(ns) : out[m].degree = ns[m].degree
    PROVE  PopFits(f, out, M)
<1>1. 1 .. Len(ns) \subseteq 1 .. Len(out)
  OBVIOUS
<1>2. \A m \in Pending(f) : out[m].degree = ns[m].degree
  BY DEF PopFits
<1>3. \A i \in 1 .. Len(f.table) : f.table[i] # Null => f.table[i] \in Pending(f)
  <2> SUFFICES ASSUME NEW i \in 1 .. Len(f.table), f.table[i] # Null
               PROVE  f.table[i] \in Pending(f)
    OBVIOUS
  <2> QED BY DEF PopFits, Pending, Tabled, Range
<1>4. f.at \in {"bucket", "link"} => f.x \in Pending(f)
  BY DEF Pending
<1> QED BY <1>1, <1>2, <1>3, <1>4 DEF PopFits

LEMMA LeastFitsGrows ==
    ASSUME NEW f \in PopFrame, NEW ns, NEW L, PopFits(f, ns, L), NEW m, LeastFits(f, m, ns, L),
           NEW out, NEW M, L \subseteq M, Tops(ns, L) \subseteq Tops(out, M),
           L \subseteq 1 .. Len(ns), Tops(ns, L) \subseteq L,
           \A n \in 1 .. Len(ns) : out[n].item = ns[n].item
    PROVE  LeastFits(f, m, out, M)
<1>1. m \in L /\ m \in M /\ out[m].item = ns[m].item
  BY DEF LeastFits
<1>2. \A r \in Pending(f) : out[r].item = ns[r].item
  BY DEF PopFits
<1>3. \A i \in 1 .. Len(f.table) : f.table[i] # Null => f.table[i] \in Pending(f)
  BY DEF Pending, Tabled, Range
<1>4. f.degree \in Nat /\ Len(f.table) \in Nat
  BY DEF PopFrame
<1>5. \A i \in f.degree + 1 .. Len(f.table) : i \in 1 .. Len(f.table)
  BY <1>4
<1>6. \A i \in f.degree + 1 .. Len(f.table) :
          f.table[i] # Null => out[f.table[i]].item = ns[f.table[i]].item
  BY <1>2, <1>3, <1>5
<1>7. f.at \notin {"look", "scan"} =>
        \/ m \in Tops(out, M) \ Pending(f)
        \/ \E r \in Pending(f) : out[r].item <= out[m].item
  BY <1>1, <1>2 DEF LeastFits
<1>8. f.at \in {"look", "scan"} =>
        \/ m \in Tops(out, M)
        \/ \E i \in f.degree + 1 .. Len(f.table) :
              f.table[i] # Null /\ out[f.table[i]].item <= out[m].item
  BY <1>1, <1>6 DEF LeastFits
<1>9. f.at = "scan" => m \in Tops(out, M) \/ f.b = m
  BY DEF LeastFits
<1> QED BY <1>1, <1>7, <1>8, <1>9 DEF LeastFits

LEMMA FirstFrame ==
    ASSUME NEW fs, NEW ns, NEW L, FramesFit(fs, ns, L), Popping(fs)
    PROVE  fs[1] \in PopFrame
<1>1. fs \in Seq(TieFrame \cup PopFrame) /\ fs # <<>> /\ fs[1].at # "tie"
  BY DEF FramesFit, Popping
<1>2. fs[1] \in TieFrame \cup PopFrame
  BY <1>1
<1> QED BY <1>1, <1>2 DEF TieFrame

LEMMA FramesNone ==
    ASSUME NEW ns, NEW L
    PROVE  FramesFit(<<>>, ns, L) /\ ~Popping(<<>>) /\ Waiting(<<>>) = {} /\ Len(<<>>) = 0
<1>1. <<>> \in Seq(TieFrame \cup PopFrame) /\ Len(<<>>) = 0 /\ ~Popping(<<>>)
  BY DEF Popping
<1>2. \A i \in 1 .. Len(<<>>) : FALSE
  BY <1>1
<1>3. \A i \in 2 .. Len(<<>>) : FALSE
  BY <1>1
<1>4. FramesFit(<<>>, ns, L)
  BY <1>1, <1>2, <1>3 DEF FramesFit
<1> QED BY <1>1, <1>4 DEF Waiting

LEMMA ReachedNext ==
    ASSUME NEW L, nodes' \in Arena, Forest(nodes', root', L)
    PROVE  Reached' = L
<1>1. ReachedRight'
  BY ReachedIs, PTL
<1> QED BY <1>1 DEF ReachedRight

LEMMA CalmFacts ==
    ASSUME CalmInv
    PROVE  /\ nodes \in Arena /\ Forest(nodes, root, Reached) /\ failures = {}
           /\ FramesFit(frames, nodes, Reached)
           /\ Tops(nodes, Reached) \subseteq Reached /\ Reached \subseteq 1 .. Len(nodes)
           /\ Null \notin Reached /\ Len(nodes) \in Nat
           /\ \A n \in 1 .. Len(nodes) : n \in Nat /\ n # Null
           /\ \A n \in 1 .. Len(nodes) : nodes[n].item \in Int /\ nodes[n].degree \in Nat
           /\ IsFiniteSet(Reached) /\ Cardinality(Reached) \in Nat
           /\ Waiting(frames) \subseteq Tops(nodes, Reached)
           /\ Popping(frames) => frames[1] \in PopFrame
<1>1. /\ nodes \in Arena /\ Forest(nodes, root, Reached) /\ failures = {}
      /\ FramesFit(frames, nodes, Reached)
      /\ Popping(frames) => PopFits(frames[1], nodes, Reached)
  BY DEF CalmInv
<1>2. IsFiniteSet(Reached) /\ Cardinality(Reached) \in Nat
  BY <1>1, ForestSize
<1>3. Waiting(frames) \subseteq Tops(nodes, Reached)
  BY <1>1 DEF Waiting, PopFits
<1>4. Popping(frames) => frames[1] \in PopFrame
  BY <1>1, FirstFrame
<1>5. /\ Tops(nodes, Reached) \subseteq Reached /\ Reached \subseteq 1 .. Len(nodes)
      /\ Null \notin Reached /\ Len(nodes) \in Nat
      /\ \A n \in 1 .. Len(nodes) : n \in Nat /\ n # Null
      /\ \A n \in 1 .. Len(nodes) : nodes[n].item \in Int /\ nodes[n].degree \in Nat
  BY <1>1, TopsIn
<1> QED BY <1>1, <1>2, <1>3, <1>4, <1>5

-----------------------------------------------------------------------------
(* Steps *)

(* No node's item changes.                                                 *)
ItemsStay == \A m \in 1 .. Len(nodes) : nodes'[m].item = nodes[m].item

(* n is a new node with the item v.                                         *)
Entered(v, n) ==
    /\ Reached' = Reached \cup {n} /\ n \notin Reached
    /\ Len(nodes') = n /\ nodes'[n].item = v /\ ItemsStay

LEMMA PushStep ==
    ASSUME Calm, CalmInv, NEW v \in Items, Push(v)
    PROVE  CalmInv' /\ Entered(v, Len(nodes) + 1)
<1> DEFINE L == Reached
           n == Len(nodes) + 1
           M == L \cup {n}
           t == MergeWithRoot([nodes |-> Append(nodes, Node(v, n)), root |-> root], n)
<1>1. /\ nodes \in Arena /\ Forest(nodes, root, L) /\ failures = {}
      /\ FramesFit(frames, nodes, L)
      /\ Tops(nodes, L) \subseteq L /\ L \subseteq 1 .. Len(nodes)
      /\ Null \notin L /\ Len(nodes) \in Nat
      /\ \A m \in 1 .. Len(nodes) : m \in Nat /\ m # Null
      /\ \A m \in 1 .. Len(nodes) : nodes[m].item \in Int /\ nodes[m].degree \in Nat
      /\ IsFiniteSet(L) /\ Cardinality(L) \in Nat
      /\ Waiting(frames) \subseteq Tops(nodes, L)
      /\ Popping(frames) => frames[1] \in PopFrame
  BY CalmFacts
<1>2. /\ Popping(frames) => PopFits(frames[1], nodes, L)
      /\ MinFits(frames, min, nodes, L)
      /\ SizeFits(size, frames, throws, L)
      /\ Pure => PureFits(frames, min, nodes, L)
  BY DEF CalmInv
<1>3. /\ nodes' = t.nodes /\ root' = t.root
      /\ popped' = popped /\ comparator' = comparator /\ throws' = throws /\ failures' = failures
      /\ frames = <<>> \/ ("push" \in comparator.calls /\ frames[Len(frames)].at \in Comparing)
      /\ min = Null => min' = n /\ size' = size + 1 /\ frames' = frames
      /\ min # Null =>
            /\ frames' = Append(frames, [at |-> "tie", x |-> n, b |-> min])
            /\ min' = min /\ size' = size
  BY DEF Push, MayCall, Top, history
<1>4. /\ t.nodes \in Arena /\ Len(t.nodes) = n /\ n \notin L
      /\ Forest(t.nodes, t.root, M)
      /\ \A m \in 1 .. Len(nodes) :
            /\ t.nodes[m].item = nodes[m].item /\ t.nodes[m].degree = nodes[m].degree
            /\ t.nodes[m].parent = nodes[m].parent
      /\ t.nodes[n].item = v /\ t.nodes[n].parent = Null
  <2>1. nodes \in Arena /\ Forest(nodes, root, L)
    BY <1>1
  <2>2. Grown(nodes, L, v, n, t)
    BY <2>1, PushForest
  <2> QED BY <2>2 DEF Grown
<1> HIDE DEF L, t
<1>5. /\ nodes' \in Arena /\ Len(nodes') = n /\ Forest(nodes', root', M)
      /\ \A m \in 1 .. Len(nodes) :
            /\ nodes'[m].item = nodes[m].item /\ nodes'[m].degree = nodes[m].degree
            /\ nodes'[m].parent = nodes[m].parent
      /\ nodes'[n].item = v /\ nodes'[n].parent = Null
  BY <1>3, <1>4
<1>6. Reached' = M
  BY <1>5, ReachedNext
<1>7. Tops(nodes', M) = Tops(nodes, L) \cup {n}
  <2>1. \A m \in L : nodes'[m].parent = nodes[m].parent
    BY <1>1, <1>5
  <2> QED BY <1>5, <2>1 DEF Tops, Kids
<1>8. n \in Nat /\ n \in 1 .. n /\ Len(nodes) <= n /\ n # Null /\ v \in Int
  BY <1>1, BoundsAssumption DEF Null
<1>9. Cardinality(M) = Cardinality(L) + 1 /\ IsFiniteSet(M)
  BY <1>1, <1>4, FS_AddElement
<1>10. Pure' <=> Pure
  BY <1>3 DEF Pure
<1>13. Entered(v, n)
  BY <1>4, <1>5, <1>6 DEF Entered, ItemsStay, L
<1> HIDE DEF M
<1>14. Entered(v, Len(nodes) + 1)
  BY <1>13
<1> HIDE DEF n
<1>11. ASSUME min = Null PROVE CalmInv'
  <2>1. L = {} /\ ~Popping(frames)
    BY <1>1, <1>2, <1>11 DEF MinFits, LeastFits
  <2>2. frames = <<>>
    <3> SUFFICES ASSUME frames # <<>> PROVE FALSE
      OBVIOUS
    <3>1. frames[1].at = "tie"
      BY <2>1 DEF Popping
    <3>2. frames \in Seq(TieFrame \cup PopFrame)
      BY <1>1 DEF FramesFit
    <3>3. Len(frames) \in Nat \ {0}
      BY <3>2, FrontFacts
    <3>4. 1 \in 1 .. Len(frames)
      BY <3>3
    <3>5. frames[1].x \in Tops(nodes, L)
      BY <1>1, <3>1, <3>4 DEF FramesFit
    <3> QED BY <1>1, <2>1, <3>5
  <2>3. frames' = <<>> /\ min' = n /\ size' = size + 1
    BY <1>3, <1>11, <2>2
  <2>4. M = {n} /\ n \in Tops(nodes', M)
    BY <1>7, <2>1 DEF M
  <2>5. FramesFit(frames', nodes', M) /\ ~Popping(frames') /\ Len(frames') = 0
    BY <2>3, FramesNone
  <2>6. MinFits(frames', min', nodes', M)
    BY <2>3, <2>4, <2>5 DEF MinFits
  <2>7. SizeFits(size', frames', throws', M)
    <3>1. Cardinality(L) = 0
      BY <2>1, FS_EmptySet
    <3>2. Cardinality(M) = 1 /\ throws' = throws /\ Len(frames) = 0
      BY <1>3, <1>9, <2>2, <3>1
    <3>3. size \in Nat /\ size <= 0 /\ 0 <= size + Len(throws)
      BY <1>2, <2>1, <3>1, <3>2 DEF SizeFits
    <3> QED BY <2>3, <2>5, <3>2, <3>3 DEF SizeFits
  <2>8. PureFits(frames', min', nodes', M)
    BY <1>5, <1>8, <2>3, <2>4, <2>5 DEF PureFits
  <2> QED BY <1>1, <1>3, <1>5, <1>6, <2>5, <2>6, <2>7, <2>8 DEF CalmInv
<1>12. ASSUME min # Null PROVE CalmInv'
  <2>1. frames' = Append(frames, [at |-> "tie", x |-> n, b |-> min]) /\ min' = min /\ size' = size
    BY <1>3, <1>12
  <2>2. min \in L
    BY <1>1, <1>2, <1>12 DEF MinFits, LeastFits
  <2>3. n \in Tops(nodes', M) \ Waiting(frames) /\ min \in 1 .. Len(nodes')
    BY <1>1, <1>4, <1>5, <1>7, <1>8, <2>2
  <2>4. /\ FramesFit(frames', nodes', M) /\ Len(frames') = Len(frames) + 1
        /\ Popping(frames') <=> Popping(frames)
        /\ Popping(frames) => frames'[1] = frames[1]
        /\ frames = <<>> => frames'[1].x = n /\ frames'[1].b = min
    <3>1. Tops(nodes, L) \subseteq Tops(nodes', M) /\ Len(nodes') \in Nat /\ Len(nodes) <= Len(nodes')
      BY <1>5, <1>7, <1>8
    <3> QED BY <1>1, <1>3, <1>8, <2>1, <2>3, <3>1, FramesPushed
  <2>5. ASSUME Popping(frames)
        PROVE  PopFits(frames'[1], nodes', M) /\ LeastFits(frames'[1], min', nodes', M)
    <3> DEFINE f == frames[1]
    <3>1. f \in PopFrame /\ PopFits(f, nodes, L) /\ LeastFits(f, min, nodes, L) /\ frames'[1] = f
      BY <1>1, <1>2, <2>4, <2>5 DEF MinFits
    <3>2. f.z \notin M
      <4>1. f.z \in 1 .. Len(nodes) /\ f.z \notin L
        BY <3>1 DEF PopFits
      <4> QED BY <1>1, <4>1 DEF M, n
    <3>3. Tops(nodes, L) \subseteq Tops(nodes', M) /\ Tops(nodes, L) \subseteq 1 .. Len(nodes) /\ L \subseteq M
      BY <1>1, <1>7 DEF M
    <3> HIDE DEF f
    <3>4. PopFits(f, nodes', M)
      BY <1>1, <1>5, <1>8, <3>1, <3>2, <3>3, PopFitsStays
    <3>5. LeastFits(f, min, nodes', M)
      BY <1>1, <1>5, <3>1, <3>3, LeastFitsGrows
    <3> QED BY <2>1, <3>1, <3>4, <3>5
  <2>6. MinFits(frames', min', nodes', M)
    <3>1. ~Popping(frames) => min \in Tops(nodes', M)
      BY <1>2, <1>7, <1>12 DEF MinFits
    <3> QED BY <2>1, <2>4, <2>5, <3>1 DEF MinFits
  <2>7. SizeFits(size', frames', throws', M)
    <3>1. frames \in Seq(TieFrame \cup PopFrame)
      BY <1>1 DEF FramesFit
    <3>2. Len(frames) \in Nat
      BY <3>1
    <3> QED BY <1>1, <1>2, <1>3, <1>9, <2>1, <2>4, <3>2 DEF SizeFits
  <2>8. Pure => PureFits(frames', min', nodes', M)
    <3> SUFFICES ASSUME Pure PROVE PureFits(frames', min', nodes', M)
      OBVIOUS
    <3>1. frames = <<>>
      BY <1>3 DEF Pure
    <3>2. ~Popping(frames') /\ Len(frames') = 1 /\ frames'[1].x = n /\ frames'[1].b = min
      BY <2>4, <3>1, FramesNone
    <3>3. \A m \in L : nodes[min].item <= nodes[m].item
      BY <1>2, <3>1, FramesNone DEF PureFits
    <3>4. \A m \in L : nodes'[min].item <= nodes'[m].item
      <4> TAKE m \in L
      <4>1. nodes'[min].item = nodes[min].item /\ nodes'[m].item = nodes[m].item
        BY <1>1, <1>5, <2>2
      <4> QED BY <3>3, <4>1
    <3> QED BY <2>1, <3>2, <3>4 DEF PureFits, M
  <2> QED BY <1>1, <1>3, <1>5, <1>6, <1>10, <2>4, <2>5, <2>6, <2>7, <2>8 DEF CalmInv
<1> QED BY <1>11, <1>12, <1>14

LEMMA StillForest ==
    ASSUME CalmInv, nodes' = nodes, root' = root
    PROVE  Reached' = Reached
<1>1. nodes' \in Arena /\ Forest(nodes', root', Reached)
  BY DEF CalmInv
<1> QED BY <1>1, ReachedNext

LEMMA StillCalm ==
    ASSUME CalmInv,
           UNCHANGED <<nodes, root, min, size, frames, comparator, throws, failures>>
    PROVE  CalmInv'
<1>1. Reached' = Reached
  BY StillForest
<1>2. Pure' <=> Pure
  BY DEF Pure
<1> QED BY <1>1, <1>2 DEF CalmInv

LEMMA LeastFitsRoot ==
    ASSUME NEW f, NEW ns, NEW L, NEW x, x \in Tops(ns, L) \ Pending(f), Tops(ns, L) \subseteq L
    PROVE  LeastFits(f, x, ns, L)
  BY DEF LeastFits

LEMMA SizeFitsSteps ==
    ASSUME NEW sz, NEW fs, NEW ts, NEW L, SizeFits(sz, fs, ts, L),
           Len(fs) \in Nat, Len(ts) \in Nat, Cardinality(L) \in Nat,
           NEW sz2 \in Nat, NEW fs2, NEW ts2, Len(fs2) \in Nat, Len(ts2) \in Nat,
           sz2 >= sz, Popping(fs2) <=> Popping(fs),
           sz2 + Len(fs2) <= sz + Len(fs),
           sz + Len(fs) + Len(ts) <= sz2 + Len(fs2) + Len(ts2)
    PROVE  SizeFits(sz2, fs2, ts2, L)
<1> DEFINE a == Len(fs)
           b == Len(fs2)
           c == Len(ts)
           d == Len(ts2)
           k == Cardinality(L)
           p == IF Popping(fs) THEN 2 ELSE 0
<1>1. /\ sz \in Nat /\ (Popping(fs) => sz > 0)
      /\ (sz + a) - p <= k /\ k <= ((sz + a) - p) + c
  BY DEF SizeFits
<1>2. a \in Nat /\ b \in Nat /\ c \in Nat /\ d \in Nat /\ k \in Nat /\ p \in Nat
  OBVIOUS
<1>3. sz2 + b <= sz + a /\ (sz + a) + c <= (sz2 + b) + d
  OBVIOUS
<1>4. p = IF Popping(fs2) THEN 2 ELSE 0
  OBVIOUS
<1> HIDE DEF a, b, c, d, k, p
<1>5. (sz2 + b) - p <= k /\ k <= ((sz2 + b) - p) + d
  BY <1>1, <1>2, <1>3
<1>6. Popping(fs2) => sz2 > 0
  BY <1>1
<1>7. /\ (sz2 + b) - (IF Popping(fs2) THEN 2 ELSE 0) <= k
      /\ k <= ((sz2 + b) - (IF Popping(fs2) THEN 2 ELSE 0)) + d
  BY <1>4, <1>5
<1> QED BY <1>6, <1>7 DEF SizeFits, b, d, k

LEMMA CalmThrows ==
    ASSUME Calm
    PROVE  Len(throws) \in Nat /\ Len(throws) <= 1
<1>1. Len(<<>>) = 0 /\ Len(<<"tie">>) = 1
  OBVIOUS
<1>2. throws = <<>> \/ throws = <<"tie">>
  BY DEF Calm, AtMostOnePushThrew
<1>3. Len(throws) = 0 \/ Len(throws) = 1
  BY <1>1, <1>2
<1> DEFINE k == Len(throws)
<1>4. k = 0 \/ k = 1
  BY <1>3
<1> HIDE DEF k
<1>5. k \in Nat /\ k <= 1
  BY <1>4
<1> QED BY <1>5 DEF k

LEMMA AnswerTieStep ==
    ASSUME Calm, CalmInv, AnswerTie
    PROVE  CalmInv'
<1> DEFINE L == Reached
           x == Top.x
           b == Top.b
<1>1. /\ nodes \in Arena /\ Forest(nodes, root, L) /\ failures = {}
      /\ FramesFit(frames, nodes, L)
      /\ Tops(nodes, L) \subseteq L /\ L \subseteq 1 .. Len(nodes)
      /\ Null \notin L /\ Len(nodes) \in Nat
      /\ \A m \in 1 .. Len(nodes) : nodes[m].item \in Int
      /\ Waiting(frames) \subseteq Tops(nodes, L) /\ Cardinality(L) \in Nat
  BY CalmFacts
<1>2. /\ Popping(frames) => PopFits(frames[1], nodes, L)
      /\ MinFits(frames, min, nodes, L)
      /\ SizeFits(size, frames, throws, L)
      /\ Pure => PureFits(frames, min, nodes, L)
  BY DEF CalmInv
<1>3. /\ nodes' = nodes /\ root' = root /\ comparator' = comparator
      /\ throws' = throws /\ failures' = failures
      /\ frames # <<>> /\ frames[Len(frames)].at = "tie"
      /\ min' = IF nodes[x].item <= nodes[b].item THEN x ELSE min
      /\ size' = size + 1
      /\ frames' = SubSeq(frames, 1, Len(frames) - 1)
  BY DEF AnswerTie, Running, Top, Return, trees, history
<1>4. Reached' = L
  BY <1>3, StillForest
<1>5. /\ Len(frames) \in Nat \ {0}
      /\ x \in Tops(nodes, L) \ Waiting(frames) /\ b \in 1 .. Len(nodes)
  BY <1>1, <1>3, FramesTop DEF Top
<1>6. /\ FramesFit(frames', nodes, L) /\ Len(frames') = Len(frames) - 1
      /\ Popping(frames') <=> Popping(frames)
      /\ Popping(frames) => frames'[1] = frames[1]
  BY <1>1, <1>3, FramesReturned
<1> HIDE DEF L, x, b
<1>7. ASSUME Popping(frames)
      PROVE  PopFits(frames'[1], nodes, L) /\ LeastFits(frames'[1], min', nodes, L)
  <2>1. Waiting(frames) = Pending(frames[1])
    BY <1>7 DEF Waiting
  <2>2. LeastFits(frames[1], x, nodes, L)
    BY <1>1, <1>5, <2>1, LeastFitsRoot
  <2>3. LeastFits(frames[1], min, nodes, L)
    BY <1>2, <1>7 DEF MinFits
  <2> QED BY <1>2, <1>3, <1>6, <1>7, <2>2, <2>3
<1>8. MinFits(frames', min', nodes, L)
  BY <1>1, <1>2, <1>3, <1>5, <1>6, <1>7 DEF MinFits
<1>9. SizeFits(size', frames', throws', L)
  <2>1. Len(throws) \in Nat /\ size \in Nat
    BY <1>2, CalmThrows DEF SizeFits
  <2>2. /\ Len(frames') \in Nat /\ size' \in Nat /\ size' >= size
        /\ size' + Len(frames') = size + Len(frames)
    <3> DEFINE n == Len(frames)
               m == Len(frames')
               s == size'
    <3>1. n \in Nat \ {0} /\ m = n - 1 /\ s = size + 1
      BY <1>3, <1>5, <1>6
    <3> HIDE DEF n, m, s
    <3>2. m \in Nat /\ s \in Nat /\ s >= size /\ s + m = size + n
      BY <2>1, <3>1
    <3> QED BY <3>2 DEF n, m, s
  <2>3. /\ size' + Len(frames') <= size + Len(frames)
        /\ size + Len(frames) + Len(throws) <= size' + Len(frames') + Len(throws')
    <3> DEFINE a == Len(frames)
               c == Len(throws)
               q == Len(frames')
               s == size'
    <3>1. a \in Nat /\ c \in Nat /\ q \in Nat /\ size \in Nat /\ s \in Nat /\ s + q = size + a
      BY <1>5, <2>1, <2>2
    <3> HIDE DEF a, q, c, s
    <3>2. s + q <= size + a /\ (size + a) + c <= (s + q) + c
      BY <3>1
    <3> QED BY <1>3, <3>2 DEF a, q, c, s
  <2> QED BY <1>1, <1>2, <1>3, <1>5, <1>6, <2>1, <2>2, <2>3, SizeFitsSteps
<1>10. Pure => PureFits(frames', min', nodes, L)
  <2> SUFFICES ASSUME Pure PROVE PureFits(frames', min', nodes, L)
    OBVIOUS
  <2>1. Len(frames) = 1 /\ frames[1].at = "tie" /\ frames[1].x = x /\ frames[1].b = b
    <3>1. Len(frames) <= 1
      BY <1>2 DEF PureFits
    <3>2. Len(frames) = 1
      BY <1>5, <3>1, JustOne
    <3> QED BY <1>3, <3>2 DEF x, b, Top
  <2>2. ~Popping(frames) /\ ~Popping(frames') /\ Len(frames') = 0
    BY <1>6, <2>1 DEF Popping
  <2>3. b = min /\ \A n \in L : nodes[min].item <= nodes[n].item \/ x = n
    BY <1>2, <1>3, <2>1, <2>2 DEF PureFits
  <2>4. x \in L /\ min \in L
    BY <1>1, <1>2, <1>5, <2>2 DEF MinFits
  <2>5. \A n \in L : nodes[min'].item <= nodes[n].item
    <3> TAKE n \in L
    <3>1. nodes[n].item \in Int /\ nodes[x].item \in Int /\ nodes[min].item \in Int
      BY <1>1, <2>4
    <3>2. nodes[min].item <= nodes[n].item \/ x = n
      BY <2>3
    <3>3. CASE nodes[x].item <= nodes[min].item
      BY <1>3, <2>3, <3>1, <3>2, <3>3
    <3>4. CASE ~(nodes[x].item <= nodes[min].item)
      BY <1>3, <2>3, <3>1, <3>2, <3>4
    <3> QED BY <3>3, <3>4
  <2>6. frames' = <<>>
    BY <1>3, <2>1, <2>2, <1>6, EmptySeq DEF FramesFit
  <2> QED BY <2>2, <2>5, <2>6 DEF PureFits
<1>11. Pure' <=> Pure
  BY <1>3 DEF Pure
<1> QED BY <1>1, <1>3, <1>4, <1>6, <1>7, <1>8, <1>9, <1>10, <1>11 DEF CalmInv

LEMMA ThrowStep ==
    ASSUME Calm, CalmInv, Throw, Top.at = "tie", throws = <<>>
    PROVE  CalmInv'
<1> DEFINE L == Reached
<1>1. /\ nodes \in Arena /\ Forest(nodes, root, L) /\ failures = {}
      /\ FramesFit(frames, nodes, L) /\ Cardinality(L) \in Nat
  BY CalmFacts
<1>2. /\ Popping(frames) => PopFits(frames[1], nodes, L)
      /\ MinFits(frames, min, nodes, L)
      /\ SizeFits(size, frames, throws, L)
  BY DEF CalmInv
<1>3. /\ nodes' = nodes /\ root' = root /\ comparator' = comparator
      /\ min' = min /\ size' = size /\ failures' = failures
      /\ frames # <<>> /\ frames[Len(frames)].at = "tie"
      /\ Len(throws) < comparator.throws /\ throws' = Append(throws, Top.at)
      /\ frames' = SubSeq(frames, 1, Len(frames) - 1)
  BY DEF Throw, Running, Top, Return, trees
<1>4. Reached' = L
  BY <1>3, StillForest
<1>5. Len(frames) \in Nat \ {0}
  BY <1>1, <1>3, FramesTop
<1>6. /\ FramesFit(frames', nodes, L) /\ Len(frames') = Len(frames) - 1
      /\ Popping(frames') <=> Popping(frames)
      /\ Popping(frames) => frames'[1] = frames[1]
  BY <1>1, <1>3, FramesReturned
<1> HIDE DEF L
<1>7. MinFits(frames', min', nodes, L)
  BY <1>2, <1>3, <1>6 DEF MinFits
<1>8. SizeFits(size', frames', throws', L)
  <2>1. Len(throws) = 0 /\ Len(throws') = 1
    BY <1>3
  <2>2. Len(frames') \in Nat /\ size \in Nat /\ size >= size
    BY <1>2, <1>5, <1>6 DEF SizeFits
  <2>3. /\ size + Len(frames') <= size + Len(frames)
        /\ size + Len(frames) + Len(throws) <= size + Len(frames') + Len(throws')
    BY <1>5, <1>6, <2>1, <2>2
  <2>4. Len(throws) \in Nat /\ Len(throws') \in Nat
    BY <2>1
  <2> QED BY <1>1, <1>2, <1>3, <1>5, <1>6, <2>2, <2>3, <2>4, SizeFitsSteps
<1>9. ~Pure'
  BY <1>3 DEF Pure
<1> QED BY <1>1, <1>2, <1>3, <1>4, <1>6, <1>7, <1>8, <1>9 DEF CalmInv

LEMMA ForestNone ==
    ASSUME NEW ns
    PROVE  Forest(ns, Null, {})
<1>1. \A o : Kids(ns, {}, o) = {}
  BY DEF Kids
<1> QED BY <1>1, CycleEmpty DEF Forest, Heads

LEMMA ClearStep ==
    ASSUME Calm, CalmInv, Clear
    PROVE  CalmInv'
<1>1. nodes \in Arena /\ failures = {}
  BY CalmFacts
<1>2. /\ nodes' = nodes /\ root' = Null /\ min' = Null /\ size' = 0
      /\ throws' = throws /\ failures' = failures
      /\ frames = <<>> /\ frames' = <<>>
  BY DEF Clear, MayCall, history, Calm
<1>3. nodes' \in Arena /\ Forest(nodes', root', {})
  BY <1>1, <1>2, ForestNone
<1>4. Reached' = {}
  BY <1>3, ReachedNext
<1>5. FramesFit(frames', nodes', {}) /\ ~Popping(frames') /\ Len(frames') = 0
  BY <1>2, FramesNone
<1>6. MinFits(frames', min', nodes', {})
  BY <1>2, <1>5 DEF MinFits
<1>7. SizeFits(size', frames', throws', {})
  <2>1. Cardinality({}) = 0 /\ Len(throws') \in {0, 1}
    BY <1>2, FS_EmptySet DEF Calm, AtMostOnePushThrew
  <2> QED BY <1>2, <1>5, <2>1 DEF SizeFits
<1>8. PureFits(frames', min', nodes', {})
  BY <1>2, <1>5 DEF PureFits
<1> QED BY <1>1, <1>2, <1>3, <1>4, <1>5, <1>6, <1>7, <1>8 DEF CalmInv

LEMMA PopEmptyStep ==
    ASSUME CalmInv, PopEmpty
    PROVE  CalmInv'
  BY StillCalm DEF PopEmpty, trees, history

LEMMA PopNothingStep ==
    ASSUME Calm, CalmInv
    PROVE  ~PopNothing
<1> SUFFICES ASSUME PopNothing PROVE FALSE
  OBVIOUS
<1>1. frames = <<>> /\ size # 0 /\ min = Null
  BY DEF PopNothing, MayCall, Calm
<1>2. MinFits(frames, min, nodes, Reached) /\ SizeFits(size, frames, throws, Reached)
  BY DEF CalmInv
<1>3. ~Popping(frames) /\ Len(frames) = 0
  BY <1>1, FramesNone
<1>4. Null \notin Reached /\ Tops(nodes, Reached) \subseteq Reached
  BY CalmFacts
<1>5. Reached = {}
  BY <1>1, <1>2, <1>3, <1>4 DEF MinFits
<1>6. Cardinality(Reached) = 0
  BY <1>5, FS_EmptySet
<1> QED BY <1>1, <1>2, <1>3, <1>6 DEF SizeFits

(* What a pop of z did before its first comparison, if it makes any.       *)
TakenOut(z) ==
    /\ z \in Reached /\ Reached' = Reached \ {z} /\ ItemsStay
    /\ \/ frames' = <<>> /\ popped' = nodes[z].item
       \/ popped' = popped /\ \E f \in PopFrame : frames' = <<f>> /\ f.z = z

LEMMA PopStep ==
    ASSUME Calm, CalmInv, Pop
    PROVE  CalmInv' /\ TakenOut(min)
<1> DEFINE L == Reached
           z == min
           t == Without(z)
           W == Heirs(nodes, L, z)
           M == L \ {z}
<1>1. /\ nodes \in Arena /\ Forest(nodes, root, L) /\ failures = {}
      /\ Tops(nodes, L) \subseteq L /\ L \subseteq 1 .. Len(nodes)
      /\ Null \notin L /\ Len(nodes) \in Nat
      /\ \A m \in 1 .. Len(nodes) : m \in Nat
      /\ \A m \in 1 .. Len(nodes) : nodes[m].item \in Int
      /\ IsFiniteSet(L) /\ Cardinality(L) \in Nat
  BY CalmFacts
<1>2. /\ MinFits(frames, min, nodes, L)
      /\ SizeFits(size, frames, throws, L)
      /\ Pure => PureFits(frames, min, nodes, L)
  BY DEF CalmInv
<1>3. frames = <<>> /\ size # 0 /\ z # Null
  BY DEF Pop, MayCall, Calm
<1>4. ~Popping(frames) /\ Len(frames) = 0
  BY <1>3, FramesNone
<1>5. z \in Tops(nodes, L) /\ z \in L
  BY <1>1, <1>2, <1>3, <1>4 DEF MinFits
<1> HIDE DEF L, t, W
<1>6. Vacated(nodes, L, z, W, t)
  <2>1. z \in Kids(nodes, L, Null)
    BY <1>5 DEF Tops
  <2> HIDE DEF z
  <2> QED BY <1>1, <2>1, WithoutForest DEF t, W
<1>7. /\ t.nodes \in Arena /\ Len(t.nodes) = Len(nodes)
      /\ \A m \in 1 .. Len(nodes) : t.nodes[m].item = nodes[m].item
      /\ ~(nodes[z].child # Null /\ ~ComesRound(nodes, nodes[z].child))
  BY <1>6 DEF Vacated
<1>8. Len(throws) \in Nat
  BY CalmThrows
<1>9. /\ Cardinality(M) = Cardinality(L) - 1 /\ Cardinality(L) > 0
      /\ IsFiniteSet(M) /\ Cardinality(M) \in Nat
  <2>1. M = L \ {z} /\ L # {}
    BY <1>5
  <2>2. IsFiniteSet(M) /\ Cardinality(M) = Cardinality(L) - 1
    BY <1>1, <1>5, <2>1, FS_RemoveElement
  <2>3. Cardinality(M) \in Nat
    BY <2>2, FS_CardinalityType
  <2> HIDE DEF M
  <2> QED BY <1>1, <2>2, <2>3
<1>10. size \in Nat /\ size <= Cardinality(L) /\ Cardinality(L) <= size + Len(throws)
  <2> DEFINE k == Len(frames)
  <2>1. /\ size \in Nat /\ (size + k) - 0 <= Cardinality(L)
        /\ Cardinality(L) <= ((size + k) - 0) + Len(throws) /\ k = 0
    BY <1>2, <1>4 DEF SizeFits
  <2> HIDE DEF k
  <2> QED BY <1>8, <2>1
<1>11. ASSUME W = {} PROVE CalmInv' /\ TakenOut(z)
  <2>1. t.nodes[z].right = z /\ L = {z}
    BY <1>6, <1>11 DEF Vacated
  <2>2. /\ nodes' = t.nodes /\ root' = Null /\ min' = Null /\ size' = size - 1
        /\ frames' = <<>> /\ throws' = throws /\ failures' = failures
    BY <1>3, <1>7, <2>1 DEF Pop, history, t
  <2>3. nodes' \in Arena /\ Forest(nodes', root', {})
    BY <1>7, <2>2, ForestNone
  <2>4. Reached' = {}
    BY <2>3, ReachedNext
  <2>5. FramesFit(frames', nodes', {}) /\ ~Popping(frames') /\ Len(frames') = 0
    BY <2>2, FramesNone
  <2>6. MinFits(frames', min', nodes', {})
    BY <2>2, <2>5 DEF MinFits
  <2>7. SizeFits(size', frames', throws', {})
    <3>1. Cardinality({}) = 0 /\ Cardinality(L) = 1
      BY <2>1, FS_EmptySet, FS_Singleton
    <3>2. size' = 0
      BY <1>3, <1>10, <2>2, <3>1
    <3> QED BY <1>8, <2>2, <2>5, <3>1, <3>2 DEF SizeFits
  <2>8. PureFits(frames', min', nodes', {})
    BY <2>2, <2>5 DEF PureFits
  <2>9. CalmInv'
    BY <1>1, <2>2, <2>3, <2>4, <2>5, <2>6, <2>7, <2>8 DEF CalmInv
  <2>10. popped' = nodes[z].item
    BY <1>3, <1>7, <2>1 DEF Pop, t
  <2>11. TakenOut(z)
    <3> HIDE DEF z
    <3> QED BY <1>5, <1>7, <2>1, <2>2, <2>4, <2>10 DEF TakenOut, ItemsStay, L
  <2> QED BY <2>9, <2>11
<1>12. ASSUME W # {} PROVE CalmInv' /\ TakenOut(z)
  <2> DEFINE s == Ring(t.nodes, t.root)
             f == [at |-> "next", z |-> z, todo |-> s, table |-> <<>>,
                   degree |-> 0, x |-> Null, b |-> Null]
  <2>1. /\ t.nodes[z].right \in W /\ t.root \in W
        /\ Forest(t.nodes, t.root, M) /\ Kids(t.nodes, M, Null) = W
    BY <1>6, <1>12 DEF Vacated
  <2>2. W \subseteq M /\ z \notin W /\ Null \notin W /\ W \in SUBSET (1 .. Len(t.nodes))
    BY <1>1, <1>7, <2>1 DEF Kids
  <2>3. Cycle(t.nodes, W)
    BY <2>1 DEF Forest
  <2>4. /\ ComesRound(t.nodes, t.root) /\ s \in Seq(W) /\ Range(s) = W
        /\ \A i, j \in 1 .. Len(s) : s[i] = s[j] => i = j
    <3> DEFINE ns == t.nodes
               head == t.root
    <3>1. ns \in Arena /\ W \in SUBSET (1 .. Len(ns)) /\ Cycle(ns, W) /\ head \in W
      BY <1>7, <2>1, <2>2, <2>3
    <3> HIDE DEF ns, head
    <3>2. /\ ComesRound(ns, head) /\ Ring(ns, head) \in Seq(W) /\ Range(Ring(ns, head)) = W
          /\ \A i, j \in 1 .. Len(Ring(ns, head)) : Ring(ns, head)[i] = Ring(ns, head)[j] => i = j
      BY <3>1, RingOfCycle
    <3> QED BY <3>2 DEF ns, head
  <2> HIDE DEF s
  <2>5. /\ nodes' = t.nodes /\ root' = t.root /\ min' = t.nodes[z].right /\ size' = size
        /\ frames' = <<f>> /\ throws' = throws /\ failures' = failures /\ comparator' = comparator
        /\ popped' = popped
    <3>1. t.nodes[z].right # z /\ t.root # Null
      BY <2>1, <2>2
    <3>2. frames' = Append(frames, f)
      BY <1>3, <1>7, <2>4, <3>1 DEF Pop, t, s
    <3> HIDE DEF f
    <3>3. frames' = <<f>>
      BY <1>3, <3>2
    <3> QED BY <1>3, <1>7, <2>4, <3>1, <3>3 DEF Pop, history, t
  <2>6. f \in PopFrame
    <3>1. s \in Seq(Nat)
      <4>1. W \subseteq Nat
        BY <1>1, <1>7, <2>2
      <4> QED BY <2>4, <4>1, SeqWidens
    <3>2. <<>> \in Seq(Nat) /\ 0 \in Nat /\ Null \in Nat /\ z \in Nat
      BY <1>1, <1>5 DEF Null
    <3> QED BY <3>1, <3>2 DEF PopFrame
  <2>7. Reached' = M
    BY <1>7, <2>1, <2>5, ReachedNext
  <2>8. Pending(f) = W /\ Tops(nodes', M) = W
    <3>1. Range(f.table) = {} /\ Range(f.todo) = W
      BY <2>4 DEF Range
    <3> QED BY <2>1, <2>5, <3>1 DEF Pending, Tabled, Tops
  <2>9. PopFits(f, nodes', M)
    <3>1. f.z \in 1 .. Len(nodes') /\ f.z \notin M
      BY <1>1, <1>5, <1>7, <2>5
    <3>2. Range(f.table) = {} /\ Len(f.table) = 0 /\ f.todo = s /\ f.at = "next"
      BY DEF Range
    <3> HIDE DEF f
    <3> QED BY <2>4, <2>8, <3>1, <3>2 DEF PopFits
  <2>10. f.at = "next" /\ f.z = z
    OBVIOUS
  <2> HIDE DEF f
  <2>11. frames'[1] = f /\ FramesFit(frames', nodes', M) /\ Popping(frames') /\ Len(frames') = 1
    BY <2>5, <2>6, FramesSingle
  <2>12. LeastFits(f, min', nodes', M)
    <3>1. min' \in W /\ min' \in M /\ nodes'[min'].item <= nodes'[min'].item
      <4>1. min' \in W /\ min' \in M /\ min' \in 1 .. Len(nodes)
        BY <1>7, <2>1, <2>2, <2>5
      <4>2. nodes'[min'].item \in Int
        BY <1>1, <1>7, <2>5, <4>1
      <4> QED BY <4>1, <4>2
    <3> QED BY <2>8, <2>10, <3>1 DEF LeastFits
  <2>13. MinFits(frames', min', nodes', M)
    BY <2>11, <2>12 DEF MinFits
  <2>14. SizeFits(size', frames', throws', M)
    <3> DEFINE k == Cardinality(M)
               q == Cardinality(L)
               c == Len(throws)
    <3>1. /\ k = q - 1 /\ q \in Nat /\ c \in Nat /\ size \in Nat /\ size # 0
          /\ size <= q /\ q <= size + c
      BY <1>1, <1>3, <1>8, <1>9, <1>10
    <3> HIDE DEF k, q, c
    <3>2. (size + 1) - 2 <= k /\ k <= ((size + 1) - 2) + c /\ size > 0
      BY <3>1
    <3> QED BY <1>10, <2>5, <2>11, <3>2 DEF SizeFits, k, c
  <2>15. Pure => PureFits(frames', min', nodes', M)
    <3> SUFFICES ASSUME Pure PROVE PureFits(frames', min', nodes', M)
      OBVIOUS
    <3>1. \A n \in L : nodes[z].item <= nodes[n].item
      BY <1>2, <1>3, <1>4 DEF PureFits
    <3>2. \A n \in M : nodes'[z].item <= nodes'[n].item
      <4> TAKE n \in M
      <4>1. nodes'[z].item = nodes[z].item /\ nodes'[n].item = nodes[n].item
        BY <1>1, <1>5, <1>7, <2>5
      <4> QED BY <3>1, <4>1
    <3> HIDE DEF z
    <3> QED BY <2>8, <2>10, <2>11, <3>2 DEF PureFits, PurePops
  <2>16. Pure' <=> Pure
    BY <2>5 DEF Pure
  <2>17. CalmInv'
    BY <1>1, <1>7, <2>1, <2>5, <2>7, <2>9, <2>11, <2>13, <2>14, <2>15, <2>16 DEF CalmInv
  <2>18. TakenOut(z)
    <3> HIDE DEF z
    <3> QED BY <1>5, <1>7, <2>5, <2>6, <2>7, <2>10 DEF TakenOut, ItemsStay, L
  <2> QED BY <2>17, <2>18
<1> QED BY <1>11, <1>12

-----------------------------------------------------------------------------
(* The steps of consolidate *)

LEMMA OnTop ==
    ASSUME CalmInv, frames # <<>>, Top.at # "tie"
    PROVE  /\ Popping(frames) /\ Len(frames) = 1 /\ frames[1] = Top /\ Top \in PopFrame
           /\ PopFits(Top, nodes, Reached) /\ LeastFits(Top, min, nodes, Reached)
           /\ Pure => PurePops(Top, min, nodes, Reached)
           /\ \A g : Resume(g) = <<g>>
<1>1. /\ FramesFit(frames, nodes, Reached)
      /\ Popping(frames) => PopFits(frames[1], nodes, Reached)
      /\ MinFits(frames, min, nodes, Reached)
      /\ Pure => PureFits(frames, min, nodes, Reached)
  BY DEF CalmInv
<1>2. Popping(frames) /\ Len(frames) = 1 /\ Top \in PopFrame
  BY <1>1, FramesTop DEF Top
<1>3. frames[1] = Top
  BY <1>2 DEF Top
<1>4. PopFits(Top, nodes, Reached) /\ LeastFits(Top, min, nodes, Reached)
  BY <1>1, <1>2, <1>3 DEF MinFits
<1>5. Pure => PurePops(Top, min, nodes, Reached)
  BY <1>1, <1>2, <1>3 DEF PureFits
<1>6. ASSUME NEW g PROVE Resume(g) = <<g>>
  <2>1. frames \in Seq(TieFrame \cup PopFrame)
    BY <1>1 DEF FramesFit
  <2>2. frames = [i \in 1 .. 1 |-> frames[i]]
    BY <1>2, <2>1
  <2>3. [frames EXCEPT ![1] = g] = [i \in 1 .. 1 |-> g]
    BY <2>2
  <2>4. <<g>> = [i \in 1 .. 1 |-> g]
    OBVIOUS
  <2> QED BY <1>2, <2>3, <2>4 DEF Resume
<1> QED BY <1>2, <1>3, <1>4, <1>5, <1>6

LEMMA FrameStep ==
    ASSUME CalmInv, frames # <<>>, Top.at # "tie",
           NEW g \in PopFrame, frames' = <<g>>,
           UNCHANGED <<size, comparator, throws, failures>>,
           nodes' \in Arena, Forest(nodes', root', Reached),
           PopFits(g, nodes', Reached), LeastFits(g, min', nodes', Reached),
           Pure => PurePops(g, min', nodes', Reached)
    PROVE  CalmInv'
<1> DEFINE L == Reached
<1>1. Reached' = L
  BY ReachedNext
<1>2. /\ FramesFit(frames', nodes', L) /\ Popping(frames') /\ Len(frames') = 1 /\ frames'[1] = g
  BY FramesSingle
<1>3. Popping(frames) /\ Len(frames) = 1
  BY OnTop
<1>4. SizeFits(size, frames, throws, L) /\ failures = {}
  BY DEF CalmInv
<1> HIDE DEF L
<1>5. SizeFits(size', frames', throws', L)
  BY <1>2, <1>3, <1>4 DEF SizeFits
<1>6. MinFits(frames', min', nodes', L)
  BY <1>2 DEF MinFits, L
<1>7. Pure' => PureFits(frames', min', nodes', L)
  BY <1>2 DEF PureFits, Pure, L
<1> QED BY <1>1, <1>2, <1>4, <1>5, <1>6, <1>7 DEF CalmInv, L

LEMMA HeadOfTodo ==
    ASSUME NEW s \in Seq(Nat), s # <<>>,
           \A i, j \in 1 .. Len(s) : s[i] = s[j] => i = j
    PROVE  /\ Head(s) \in Nat /\ Tail(s) \in Seq(Nat)
           /\ Range(s) = Range(Tail(s)) \cup {Head(s)} /\ Head(s) \notin Range(Tail(s))
           /\ \A i, j \in 1 .. Len(Tail(s)) : Tail(s)[i] = Tail(s)[j] => i = j
<1> DEFINE t == Tail(s)
           k == Len(s)
<1>1. /\ k \in Nat \ {0} /\ DOMAIN s = 1 .. k /\ Head(s) = s[1]
      /\ Head(s) \in Nat /\ t \in Seq(Nat)
  <2>1. k \in Nat /\ DOMAIN s = 1 .. k /\ Head(s) = s[1]
    OBVIOUS
  <2>2. k # 0
    BY EmptySeq
  <2>3. Head(s) \in Nat /\ t \in Seq(Nat)
    BY HeadTailProperties
  <2> QED BY <2>1, <2>2, <2>3
<1>2. Len(t) = k - 1 /\ DOMAIN t = 1 .. k - 1 /\ \A i \in 1 .. Len(t) : t[i] = s[i + 1]
  <2>1. Len(t) = k - 1 /\ \A i \in 1 .. Len(t) : t[i] = s[i + 1]
    BY HeadTailProperties
  <2>2. DOMAIN t = 1 .. Len(t)
    BY <1>1
  <2> QED BY <2>1, <2>2
<1> HIDE DEF t, k
<1>3. \A i \in 1 .. k - 1 : t[i] = s[i + 1] /\ i + 1 \in 1 .. k /\ i + 1 # 1
  BY <1>1, <1>2
<1>4. \A i \in 1 .. k : i = 1 \/ (i - 1 \in 1 .. k - 1 /\ t[i - 1] = s[i])
  <2> TAKE i \in 1 .. k
  <2>1. i = 1 \/ i - 1 \in 1 .. k - 1
    BY <1>1
  <2>2. (i - 1) + 1 = i
    BY <1>1
  <2> QED BY <1>3, <2>1, <2>2
<1>5. Range(t) = {t[i] : i \in 1 .. k - 1} /\ Range(s) = {s[i] : i \in 1 .. k} /\ 1 \in 1 .. k
  BY <1>1, <1>2 DEF Range
<1>6. Range(s) = Range(t) \cup {Head(s)}
  <2>1. Range(s) \subseteq Range(t) \cup {Head(s)}
    <3> SUFFICES ASSUME NEW i \in 1 .. k PROVE s[i] \in Range(t) \cup {Head(s)}
      BY <1>5
    <3>1. i = 1 \/ (i - 1 \in 1 .. k - 1 /\ t[i - 1] = s[i])
      BY <1>4
    <3> QED BY <1>1, <1>5, <3>1
  <2>2. Range(t) \cup {Head(s)} \subseteq Range(s)
    BY <1>1, <1>3, <1>5
  <2> QED BY <2>1, <2>2
<1>7. Head(s) \notin Range(t)
  BY <1>1, <1>3, <1>5 DEF k
<1>8. \A i, j \in 1 .. Len(t) : t[i] = t[j] => i = j
  <2> SUFFICES ASSUME NEW i \in 1 .. k - 1, NEW j \in 1 .. k - 1, t[i] = t[j] PROVE i = j
    BY <1>2
  <2>1. i + 1 \in 1 .. k /\ j + 1 \in 1 .. k /\ s[i + 1] = s[j + 1]
    BY <1>3
  <2>2. i + 1 = j + 1
    BY <2>1 DEF k
  <2> QED BY <1>1, <2>2
<1> QED BY <1>1, <1>6, <1>7, <1>8 DEF t

LEMMA NextRootStep ==
    ASSUME CalmInv, NextRoot
    PROVE  CalmInv'
<1> DEFINE f == Top
           L == Reached
<1>1. /\ frames # <<>> /\ f.at = "next" /\ nodes' = nodes /\ root' = root /\ min' = min
      /\ UNCHANGED <<size, comparator, throws, failures>>
  BY DEF NextRoot, Running, trees, history
<1>2. /\ f \in PopFrame /\ PopFits(f, nodes, L) /\ LeastFits(f, min, nodes, L)
      /\ Pure => PurePops(f, min, nodes, L)
      /\ \A g : Resume(g) = <<g>>
  BY <1>1, OnTop
<1>3. /\ nodes \in Arena /\ Forest(nodes, root, L) /\ Tops(nodes, L) \subseteq L
      /\ L \subseteq 1 .. Len(nodes) /\ \A n \in 1 .. Len(nodes) : nodes[n].degree \in Nat
  BY CalmFacts
<1> DEFINE h == Head(f.todo)
           g == IF f.todo # <<>>
                THEN [f EXCEPT !.at = "bucket", !.todo = Tail(@), !.x = h, !.degree = nodes[h].degree]
                ELSE [f EXCEPT !.at = "look", !.degree = 0]
<1>4. frames' = <<g>>
  BY <1>2 DEF NextRoot
<1> HIDE DEF f, L
<1>5. CASE f.todo # <<>>
  <2>1. /\ h \in Nat /\ Tail(f.todo) \in Seq(Nat)
        /\ Range(f.todo) = Range(Tail(f.todo)) \cup {h} /\ h \notin Range(Tail(f.todo))
        /\ \A i, j \in 1 .. Len(Tail(f.todo)) : Tail(f.todo)[i] = Tail(f.todo)[j] => i = j
    <3>1. f.todo \in Seq(Nat) /\ \A i, j \in 1 .. Len(f.todo) : f.todo[i] = f.todo[j] => i = j
      BY <1>2 DEF PopFrame, PopFits
    <3> QED BY <1>5, <3>1, HeadOfTodo
  <2>2. h \in Tops(nodes, L) /\ nodes[h].degree \in Nat
    BY <1>2, <1>3, <2>1 DEF PopFits, Pending
  <2>3. g \in PopFrame
    BY <1>2, <1>5, <2>1, <2>2 DEF PopFrame
  <2>4. /\ g.at = "bucket" /\ g.todo = Tail(f.todo) /\ g.x = h /\ g.degree = nodes[h].degree
        /\ g.z = f.z /\ g.table = f.table
    BY <1>2, <1>5 DEF PopFrame
  <2> HIDE DEF g, h
  <2>5. Pending(g) = Pending(f)
    BY <1>1, <2>1, <2>4 DEF Pending, Tabled
  <2>6. PopFits(g, nodes, L)
    <3>1. h \in Range(f.todo) /\ h \notin Range(f.table)
      BY <1>2, <2>1 DEF PopFits
    <3> QED BY <1>2, <2>1, <2>4, <2>5, <3>1 DEF PopFits
  <2>7. LeastFits(g, min, nodes, L)
    BY <1>1, <1>2, <2>4, <2>5 DEF LeastFits
  <2>8. Pure => PurePops(g, min, nodes, L)
    BY <1>2, <2>4, <2>5 DEF PurePops
  <2>9. Top.at # "tie"
    BY <1>1 DEF f
  <2> QED BY <1>1, <1>3, <1>4, <2>3, <2>6, <2>7, <2>8, <2>9, FrameStep DEF L
<1>6. CASE f.todo = <<>>
  <2>1. g \in PopFrame
    BY <1>2, <1>6 DEF PopFrame
  <2>2. /\ g.at = "look" /\ g.todo = <<>> /\ g.degree = 0 /\ g.z = f.z /\ g.table = f.table
    BY <1>2, <1>6 DEF PopFrame
  <2> HIDE DEF g
  <2>3. Pending(g) = Pending(f) /\ Pending(f) = Tabled(f)
    BY <1>1, <1>6, <2>2 DEF Pending, Tabled, Range
  <2>4. PopFits(g, nodes, L)
    BY <1>2, <1>6, <2>2, <2>3 DEF PopFits
  <2>5. LeastFits(g, min, nodes, L)
    <3>1. min \in L /\ (min \in Tops(nodes, L) \/ \E r \in Tabled(f) : nodes[r].item <= nodes[min].item)
      BY <1>1, <1>2, <2>3 DEF LeastFits
    <3>2. ASSUME NEW r \in Tabled(f)
          PROVE  \E i \in 0 + 1 .. Len(f.table) : f.table[i] # Null /\ f.table[i] = r
      <4>1. f.table \in Seq(Nat)
        BY <1>2 DEF PopFrame
      <4> QED BY <4>1 DEF Tabled, Range
    <3> QED BY <2>2, <3>1, <3>2 DEF LeastFits
  <2>6. Pure => PurePops(g, min, nodes, L)
    <3>1. \A r \in Tops(nodes, L) : 0 <= nodes[r].degree
      BY <1>3
    <3> QED BY <1>2, <2>2, <2>3, <3>1 DEF PurePops
  <2>7. Top.at # "tie"
    BY <1>1 DEF f
  <2> QED BY <1>1, <1>3, <1>4, <2>1, <2>4, <2>5, <2>6, <2>7, FrameStep DEF L
<1> QED BY <1>5, <1>6

(* t is the table s with n in the bucket d.                                 *)
Holds(s, d, n, t) ==
    /\ t \in Seq(Nat) /\ d < Len(t) /\ Len(s) <= Len(t)
    /\ t[d + 1] = n
    /\ \A i \in 1 .. Len(t) :
         \/ i = d + 1
         \/ t[i] = Null
         \/ i \in 1 .. Len(s) /\ t[i] = s[i]
    /\ \A i \in 1 .. Len(s) : i # d + 1 => t[i] = s[i]

LEMMA PutFacts ==
    ASSUME NEW s \in Seq(Nat), NEW d \in Nat, NEW n \in Nat
    PROVE  Holds(s, d, n, Put(s, d, n))
<1> DEFINE k == Len(s)
           b == IF d < k THEN k ELSE d + 1
           t == [i \in 1 .. b |-> IF i = d + 1 THEN n ELSE At(s, i - 1)]
<1>1. Put(s, d, n) = t
  BY DEF Put
<1>2. k \in Nat /\ \A i \in 1 .. k : s[i] \in Nat
  OBVIOUS
<1>3. \A i \in 1 .. b : At(s, i - 1) = IF i - 1 < k THEN s[(i - 1) + 1] ELSE Null
  BY DEF At
<1> HIDE DEF k
<1>4. b \in Nat /\ d + 1 \in 1 .. b /\ d < b /\ k <= b
  BY <1>2
<1> HIDE DEF b
<1>5. ASSUME NEW i \in 1 .. b, i # d + 1
      PROVE  t[i] = IF i \in 1 .. k THEN s[i] ELSE Null
  <2>1. (i - 1) + 1 = i /\ (i - 1 < k <=> i \in 1 .. k)
    BY <1>2, <1>4
  <2>2. t[i] = At(s, i - 1)
    BY <1>5
  <2> QED BY <1>3, <2>1, <2>2
<1>6. t[d + 1] = n
  BY <1>4
<1>7. \A i \in 1 .. b : t[i] \in Nat
  BY <1>2, <1>5, <1>6 DEF Null
<1>8. t \in Seq(Nat) /\ Len(t) = b
  <2>1. t = [i \in 1 .. b |-> t[i]]
    OBVIOUS
  <2> HIDE DEF t
  <2>2. t \in [1 .. b -> Nat]
    BY <1>7, <2>1
  <2> QED BY <1>4, <2>2
<1> HIDE DEF t
<1>9. \A i \in 1 .. k : i \in 1 .. b
  BY <1>2, <1>4
<1>10. \A i \in 1 .. Len(t) : i = d + 1 \/ t[i] = Null \/ (i \in 1 .. k /\ t[i] = s[i])
  BY <1>5, <1>8
<1>11. \A i \in 1 .. k : i # d + 1 => t[i] = s[i]
  BY <1>5, <1>9
<1>12. /\ t \in Seq(Nat) /\ d < Len(t) /\ k <= Len(t) /\ t[d + 1] = n
  BY <1>4, <1>6, <1>8
<1> QED BY <1>1, <1>10, <1>11, <1>12 DEF Holds, k

LEMMA BucketStep ==
    ASSUME CalmInv, Bucket
    PROVE  CalmInv'
<1> DEFINE f == Top
           L == Reached
           d == f.degree
           c == At(f.table, d)
           t == Put(f.table, d, f.x)
           g == IF c # Null THEN [f EXCEPT !.at = "link", !.b = c]
                ELSE [f EXCEPT !.at = "next", !.table = t]
<1>1. /\ frames # <<>> /\ f.at = "bucket" /\ nodes' = nodes /\ root' = root /\ min' = min
      /\ UNCHANGED <<size, comparator, throws, failures>>
  BY DEF Bucket, Running, trees, history
<1>2. /\ f \in PopFrame /\ PopFits(f, nodes, L) /\ LeastFits(f, min, nodes, L)
      /\ Pure => PurePops(f, min, nodes, L)
      /\ \A e : Resume(e) = <<e>>
  BY <1>1, OnTop
<1>3. /\ nodes \in Arena /\ Forest(nodes, root, L) /\ Tops(nodes, L) \subseteq L
      /\ L \subseteq 1 .. Len(nodes) /\ Null \notin L
  BY CalmFacts
<1>4. frames' = <<g>>
  <2>1. frames' = Resume(g)
    BY DEF Bucket
  <2> QED BY <1>2, <2>1
<1>5. Top.at # "tie"
  BY <1>1
<1> HIDE DEF f, L
<1>6. d \in Nat /\ f.x \in Nat /\ f.table \in Seq(Nat) /\ Len(f.table) \in Nat /\ f.todo \in Seq(Nat)
  BY <1>2 DEF PopFrame
<1>7. f.x \in Pending(f) /\ f.x \in Tops(nodes, L) /\ f.x # Null
  BY <1>1, <1>2, <1>3 DEF Pending, PopFits
<1>8. CASE c # Null
  <2>1. d < Len(f.table) /\ c = f.table[d + 1] /\ d + 1 \in 1 .. Len(f.table) /\ c \in Nat
    BY <1>6, <1>8 DEF At
  <2>2. /\ g.at = "link" /\ g.b = c /\ g.x = f.x /\ g.degree = d /\ g.z = f.z
        /\ g.table = f.table /\ g.todo = f.todo
    BY <1>2, <1>8 DEF PopFrame
  <2>3. g \in PopFrame
    BY <1>2, <1>8, <2>1 DEF PopFrame
  <2> HIDE DEF g
  <2>4. Pending(g) = Pending(f)
    BY <1>1, <2>2 DEF Pending, Tabled
  <2>5. PopFits(g, nodes, L)
    BY <1>1, <1>2, <1>8, <2>1, <2>2, <2>4 DEF PopFits
  <2>6. LeastFits(g, min, nodes, L)
    BY <1>1, <1>2, <2>2, <2>4 DEF LeastFits
  <2>7. Pure => PurePops(g, min, nodes, L)
    BY <1>2, <2>2, <2>4 DEF PurePops
  <2> QED BY <1>1, <1>3, <1>4, <1>5, <2>3, <2>5, <2>6, <2>7, FrameStep DEF L
<1>9. CASE c = Null
  <2>1. /\ t \in Seq(Nat) /\ d < Len(t) /\ Len(f.table) <= Len(t)
        /\ t[d + 1] = f.x
        /\ \A i \in 1 .. Len(t) :
             \/ i = d + 1
             \/ t[i] = Null
             \/ i \in 1 .. Len(f.table) /\ t[i] = f.table[i]
        /\ \A i \in 1 .. Len(f.table) : i # d + 1 => t[i] = f.table[i]
    <3>1. Holds(f.table, d, f.x, t)
      BY <1>6, PutFacts
    <3> QED BY <3>1 DEF Holds
  <2> HIDE DEF t
  <2>2. /\ g.at = "next" /\ g.degree = d /\ g.z = f.z /\ g.table = t /\ g.todo = f.todo
    BY <1>2, <1>9 DEF PopFrame
  <2>3. g \in PopFrame
    BY <1>2, <1>9, <2>1 DEF PopFrame
  <2> HIDE DEF g
  <2>4. Len(t) \in Nat /\ d + 1 \in 1 .. Len(t) /\ DOMAIN t = 1 .. Len(t) /\ DOMAIN f.table = 1 .. Len(f.table)
    BY <1>6, <2>1
  <2>5. d + 1 \in 1 .. Len(f.table) => f.table[d + 1] = Null
    BY <1>6, <1>9 DEF At
  <2>6. Range(t) \subseteq Range(f.table) \cup {f.x, Null}
    BY <2>1, <2>4 DEF Range
  <2>7. Tabled(g) = Tabled(f) \cup {f.x}
    <3>1. Tabled(g) \subseteq Tabled(f) \cup {f.x}
      BY <2>2, <2>6 DEF Tabled
    <3>2. f.x \in Tabled(g)
      BY <1>7, <2>1, <2>2, <2>4 DEF Tabled, Range
    <3>3. Tabled(f) \subseteq Tabled(g)
      <4> SUFFICES ASSUME NEW i \in 1 .. Len(f.table), f.table[i] # Null
                   PROVE  f.table[i] \in Tabled(g)
        BY <2>4 DEF Tabled, Range
      <4>1. i # d + 1 /\ t[i] = f.table[i] /\ i \in 1 .. Len(t)
        <5>1. i # d + 1
          BY <2>5
        <5>2. t[i] = f.table[i]
          BY <2>1, <5>1
        <5> DEFINE p == Len(f.table)
                   q == Len(t)
        <5>3. p \in Nat /\ q \in Nat /\ p <= q /\ i \in 1 .. p
          BY <1>6, <2>1, <2>4
        <5> HIDE DEF p, q
        <5>4. i \in 1 .. q
          BY <5>3
        <5> QED BY <5>1, <5>2, <5>4 DEF q
      <4> QED BY <2>2, <2>4, <4>1 DEF Tabled, Range
    <3> QED BY <3>1, <3>2, <3>3
  <2>8. Pending(g) = Pending(f)
    BY <1>1, <2>2, <2>7 DEF Pending
  <2>9. PopFits(g, nodes, L)
    <3>1. Null \notin Range(f.todo) /\ f.x \notin Range(f.todo) /\ Range(f.todo) \cap Range(f.table) = {}
      BY <1>1, <1>2, <1>3 DEF PopFits, Pending
    <3>2. Range(f.todo) \cap Range(t) = {}
      BY <2>6, <3>1
    <3>3. ASSUME NEW i \in 1 .. Len(t), t[i] # Null PROVE nodes[t[i]].degree = i - 1
      <4>1. CASE i = d + 1
        <5>1. nodes[f.x].degree = d /\ i - 1 = d
          BY <1>1, <1>2, <1>6, <4>1 DEF PopFits
        <5> QED BY <2>1, <4>1, <5>1
      <4>2. CASE i # d + 1
        <5>1. i \in 1 .. Len(f.table) /\ t[i] = f.table[i]
          BY <2>1, <3>3, <4>2
        <5> QED BY <1>2, <3>3, <5>1 DEF PopFits
      <4> QED BY <4>1, <4>2
    <3> QED BY <1>2, <2>2, <2>8, <3>2, <3>3 DEF PopFits
  <2>10. LeastFits(g, min, nodes, L)
    BY <1>1, <1>2, <2>2, <2>8 DEF LeastFits
  <2>11. Pure => PurePops(g, min, nodes, L)
    BY <1>2, <2>2, <2>8 DEF PurePops
  <2> QED BY <1>1, <1>3, <1>4, <1>5, <2>3, <2>9, <2>10, <2>11, FrameStep DEF L
<1> QED BY <1>8, <1>9

LEMMA AnswerLinkStep ==
    ASSUME CalmInv, AnswerLink
    PROVE  CalmInv' /\ Reached' = Reached /\ ItemsStay
<1> DEFINE f == Top
           L == Reached
           x == f.x
           y == f.b
           d == f.degree
           swap == nodes[x].item > nodes[y].item
           upper == IF swap THEN y ELSE x
           lower == IF swap THEN x ELSE y
           u == Link([nodes |-> nodes, root |-> root], lower, upper)
           t == Put(f.table, d, Null)
           g == [f EXCEPT !.at = "bucket", !.x = upper, !.table = t, !.degree = @ + 1]
<1>1. /\ frames # <<>> /\ f.at = "link" /\ nodes' = u.nodes /\ root' = u.root /\ min' = min
      /\ UNCHANGED <<size, comparator, throws, failures>>
      /\ frames' = Resume(g)
  BY DEF AnswerLink, Running, history
<1>2. /\ f \in PopFrame /\ PopFits(f, nodes, L) /\ LeastFits(f, min, nodes, L)
      /\ Pure => PurePops(f, min, nodes, L)
      /\ \A e : Resume(e) = <<e>>
  BY <1>1, OnTop
<1>3. /\ nodes \in Arena /\ Forest(nodes, root, L) /\ Tops(nodes, L) \subseteq L
      /\ L \subseteq 1 .. Len(nodes) /\ Null \notin L /\ Len(nodes) \in Nat
      /\ \A n \in 1 .. Len(nodes) : nodes[n].item \in Int /\ nodes[n].degree \in Nat
  BY CalmFacts
<1>4. frames' = <<g>> /\ Top.at # "tie"
  BY <1>1, <1>2
<1> HIDE DEF f, L
<1>5. d \in Nat /\ f.table \in Seq(Nat) /\ Len(f.table) \in Nat /\ f.todo \in Seq(Nat)
      /\ DOMAIN f.table = 1 .. Len(f.table)
  BY <1>2 DEF PopFrame
<1>6. d < Len(f.table) /\ y = f.table[d + 1] /\ y # Null /\ d + 1 \in 1 .. Len(f.table)
  <2>1. d < Len(f.table) /\ y = f.table[d + 1] /\ y # Null
    BY <1>1, <1>2 DEF PopFits
  <2> QED BY <1>5, <2>1
<1>7. /\ x \in Pending(f) /\ y \in Tabled(f) /\ y \in Pending(f)
      /\ x \notin Range(f.todo) \cup Range(f.table) /\ y \in Range(f.table)
      /\ y \notin Range(f.todo) /\ Pending(f) \subseteq Tops(nodes, L)
  <2>1. y \in Range(f.table)
    BY <1>5, <1>6 DEF Range
  <2> QED BY <1>1, <1>2, <1>6, <2>1 DEF PopFits, Pending, Tabled
<1>8. /\ x \in Tops(nodes, L) /\ y \in Tops(nodes, L) /\ x # y
      /\ nodes[x].degree = d /\ nodes[y].degree = d
  <2>1. nodes[x].degree = d
    BY <1>1, <1>2 DEF PopFits
  <2>2. nodes[y].degree = (d + 1) - 1
    BY <1>2, <1>6 DEF PopFits
  <2> QED BY <1>5, <1>7, <2>1, <2>2
<1>9. /\ upper \in Tops(nodes, L) /\ lower \in Tops(nodes, L) /\ upper # lower
      /\ nodes[upper].degree = d /\ nodes[lower].degree = d
      /\ nodes[upper].item <= nodes[lower].item
      /\ {upper, lower} = {x, y}
  <2>1. nodes[x].item \in Int /\ nodes[y].item \in Int
    BY <1>3, <1>8
  <2>2. CASE swap
    BY <1>8, <2>1, <2>2
  <2>3. CASE ~swap
    BY <1>8, <2>1, <2>3
  <2> QED BY <2>2, <2>3
<1> HIDE DEF u, t, swap, upper, lower
<1>10. Linked(nodes, L, lower, upper, u)
  <2>1. upper \in Kids(nodes, L, Null) /\ lower \in Kids(nodes, L, Null) /\ nodes[upper].degree = nodes[lower].degree
    BY <1>9 DEF Tops
  <2> QED BY <1>3, <1>9, <2>1, LinkForest DEF u
<1>11. /\ nodes' \in Arena /\ Len(nodes') = Len(nodes) /\ Forest(nodes', root', L)
       /\ \A n \in L : /\ nodes'[n].item = nodes[n].item
                       /\ nodes'[n].degree = IF n = upper THEN d + 1 ELSE nodes[n].degree
                       /\ nodes'[n].parent = IF n = lower THEN upper ELSE nodes[n].parent
  BY <1>1, <1>3, <1>9, <1>10 DEF Linked
<1>12. Tops(nodes', L) = Tops(nodes, L) \ {lower}
  <2>1. upper # Null
    BY <1>3, <1>9
  <2> QED BY <1>11, <2>1 DEF Tops, Kids
<1>13. /\ t \in Seq(Nat) /\ d < Len(t) /\ Len(f.table) <= Len(t)
       /\ t[d + 1] = Null
       /\ \A i \in 1 .. Len(t) :
             \/ i = d + 1
             \/ t[i] = Null
             \/ i \in 1 .. Len(f.table) /\ t[i] = f.table[i]
       /\ \A i \in 1 .. Len(f.table) : i # d + 1 => t[i] = f.table[i]
  <2> DEFINE n == Null
  <2>1. n \in Nat
    BY DEF Null
  <2> HIDE DEF n
  <2>2. Holds(f.table, d, n, Put(f.table, d, n))
    BY <1>5, <2>1, PutFacts
  <2> QED BY <2>2 DEF n, t, Holds
<1>14. Len(t) \in Nat /\ DOMAIN t = 1 .. Len(t)
  BY <1>13
<1>15. \A i \in 1 .. Len(f.table) : f.table[i] = y => i = d + 1
  <2> SUFFICES ASSUME NEW i \in 1 .. Len(f.table), f.table[i] = y PROVE i = d + 1
    OBVIOUS
  <2>1. nodes[f.table[i]].degree = i - 1
    BY <1>2, <1>6 DEF PopFits
  <2> QED BY <1>5, <1>8, <2>1
<1>16. Range(t) \ {Null} = Tabled(f) \ {y}
  <2>1. ASSUME NEW i \in 1 .. Len(t), t[i] # Null PROVE t[i] \in Tabled(f) \ {y}
    <3>1. i # d + 1 /\ i \in 1 .. Len(f.table) /\ t[i] = f.table[i]
      BY <1>13, <2>1
    <3> QED BY <1>5, <1>15, <2>1, <3>1 DEF Tabled, Range
  <2>2. ASSUME NEW i \in 1 .. Len(f.table), f.table[i] # y PROVE f.table[i] \in Range(t)
    <3>1. i # d + 1 /\ t[i] = f.table[i]
      BY <1>6, <1>13, <2>2
    <3> DEFINE p == Len(f.table)
               q == Len(t)
    <3>2. p \in Nat /\ q \in Nat /\ p <= q /\ i \in 1 .. p
      BY <1>5, <1>13, <1>14
    <3> HIDE DEF p, q
    <3>3. i \in 1 .. q
      BY <3>2
    <3> QED BY <1>14, <3>1, <3>3 DEF Range, q
  <2>3. Range(t) \ {Null} \subseteq Tabled(f) \ {y}
    BY <1>14, <2>1 DEF Range
  <2>4. Tabled(f) \ {y} \subseteq Range(t) \ {Null}
    BY <1>5, <2>2 DEF Tabled, Range
  <2> QED BY <2>3, <2>4
<1>17. /\ g.at = "bucket" /\ g.degree = d + 1 /\ g.x = upper /\ g.z = f.z
       /\ g.table = t /\ g.todo = f.todo
  BY <1>2 DEF PopFrame
<1>18. g \in PopFrame
  <2>1. upper \in Nat /\ d + 1 \in Nat
    <3>1. upper \in 1 .. Len(nodes)
      BY <1>3, <1>9
    <3>2. d \in Nat
      BY <1>5
    <3> HIDE DEF d
    <3> QED BY <1>3, <3>1, <3>2
  <2> QED BY <1>2, <1>13, <2>1 DEF PopFrame
<1> HIDE DEF g
<1>19. Pending(g) = Pending(f) \ {lower}
  <2>1. Pending(f) = Range(f.todo) \cup Tabled(f) \cup {x}
    BY <1>1 DEF Pending
  <2>2. Pending(g) = Range(f.todo) \cup (Tabled(f) \ {y}) \cup {upper}
    BY <1>16, <1>17 DEF Pending, Tabled
  <2>3. x \notin Tabled(f)
    BY <1>7 DEF Tabled
  <2> QED BY <1>7, <1>9, <2>1, <2>2, <2>3
<1>20. PopFits(g, nodes', L)
  <2>1. g.z \in 1 .. Len(nodes') /\ g.z \notin L
    BY <1>2, <1>11, <1>17 DEF PopFits
  <2>2. Pending(g) \subseteq Tops(nodes', L)
    BY <1>7, <1>12, <1>19
  <2>3. \A i, j \in 1 .. Len(g.todo) : g.todo[i] = g.todo[j] => i = j
    BY <1>2, <1>17 DEF PopFits
  <2>4. Null \notin Range(f.todo)
    BY <1>3, <1>7 DEF Pending
  <2>5. Range(g.todo) \cap Range(g.table) = {}
    <3>1. Range(f.todo) \cap Range(f.table) = {}
      BY <1>2 DEF PopFits
    <3> QED BY <1>16, <1>17, <2>4, <3>1 DEF Tabled
  <2>6. ASSUME NEW i \in 1 .. Len(g.table), g.table[i] # Null
        PROVE  nodes'[g.table[i]].degree = i - 1
    <3>1. i # d + 1 /\ i \in 1 .. Len(f.table) /\ t[i] = f.table[i] /\ f.table[i] # Null
      BY <1>13, <1>17, <2>6
    <3>2. f.table[i] # y /\ f.table[i] # x /\ f.table[i] \in Pending(f)
      BY <1>5, <1>7, <1>15, <3>1 DEF Range, Pending, Tabled
    <3>3. f.table[i] \in L /\ f.table[i] # upper
      BY <1>3, <1>7, <1>9, <3>2
    <3>4. nodes[f.table[i]].degree = i - 1
      BY <1>2, <3>1 DEF PopFits
    <3> QED BY <1>11, <1>17, <3>1, <3>3, <3>4
  <2>7. g.x \notin Range(g.todo) \cup Range(g.table)
    <3>1. upper \notin Range(f.todo)
      BY <1>7, <1>9
    <3>2. upper # Null
      BY <1>3, <1>9
    <3>3. upper \notin Range(t)
      BY <1>7, <1>9, <1>16, <3>2 DEF Tabled
    <3> QED BY <1>17, <3>1, <3>3
  <2>8. g.degree = nodes'[g.x].degree
    BY <1>3, <1>9, <1>11, <1>17
  <2> QED BY <1>17, <2>1, <2>2, <2>3, <2>5, <2>6, <2>7, <2>8 DEF PopFits
<1>21. LeastFits(g, min, nodes', L)
  <2>1. min \in L /\ (min \in Tops(nodes, L) \ Pending(f) \/ \E r \in Pending(f) : nodes[r].item <= nodes[min].item)
    BY <1>1, <1>2 DEF LeastFits
  <2>2. CASE min \in Tops(nodes, L) \ Pending(f)
    <3>1. min \in Tops(nodes', L) \ Pending(g)
      BY <1>7, <1>9, <1>12, <1>19, <2>2
    <3> QED BY <1>17, <2>1, <3>1 DEF LeastFits
  <2>3. ASSUME NEW r \in Pending(f), nodes[r].item <= nodes[min].item
        PROVE  LeastFits(g, min, nodes', L)
    <3>0. /\ r \in L /\ upper \in L /\ lower \in L /\ upper \in Pending(f)
          /\ nodes[r].item \in Int /\ nodes[upper].item \in Int
          /\ nodes[lower].item \in Int /\ nodes[min].item \in Int
      BY <1>3, <1>7, <1>9, <2>1
    <3>1. PICK s \in Pending(g) : s \in L /\ nodes[s].item <= nodes[min].item
      <4>1. CASE r # lower
        BY <1>19, <2>3, <3>0, <4>1
      <4>2. CASE r = lower
        BY <1>9, <1>19, <2>3, <3>0, <4>2
      <4> QED BY <4>1, <4>2
    <3>2. nodes'[s].item <= nodes'[min].item
      BY <1>11, <2>1, <3>1
    <3> QED BY <1>17, <2>1, <3>1, <3>2 DEF LeastFits
  <2> QED BY <2>1, <2>2, <2>3
<1>22. Pure => PurePops(g, min, nodes', L)
  <2> SUFFICES ASSUME PurePops(f, min, nodes, L) PROVE PurePops(g, min, nodes', L)
    BY <1>2
  <2>1. Tops(nodes', L) \subseteq Pending(g)
    BY <1>12, <1>19 DEF PurePops
  <2>2. \A n \in L : nodes'[f.z].item <= nodes'[n].item
    <3>1. f.z \in 1 .. Len(nodes)
      BY <1>2 DEF PopFits
    <3>2. nodes'[f.z].item = nodes[f.z].item
      BY <1>1, <1>10, <3>1 DEF Linked
    <3> QED BY <1>11, <3>2 DEF PurePops
  <2> QED BY <1>17, <2>1, <2>2 DEF PurePops
<1>23. CalmInv'
  BY <1>1, <1>4, <1>11, <1>18, <1>20, <1>21, <1>22, FrameStep DEF L
<1>24. Reached' = L
  BY <1>11, ReachedNext
<1>25. ItemsStay
  BY <1>1, <1>10 DEF Linked, ItemsStay
<1> QED BY <1>23, <1>24, <1>25 DEF L

LEMMA RootsTabled ==
    ASSUME NEW f \in PopFrame, NEW m, NEW ns, NEW L, PopFits(f, ns, L), PurePops(f, m, ns, L),
           f.at \in {"look", "scan"}, Null \notin Tops(ns, L),
           NEW r \in Tops(ns, L), ns[r].degree = f.degree
    PROVE  f.degree < Len(f.table) /\ f.table[f.degree + 1] = r
<1>1. r \in Tabled(f) /\ r # Null
  BY DEF PurePops, PopFits, Pending, Range
<1>2. f.table \in Seq(Nat) /\ f.degree \in Nat
  BY DEF PopFrame
<1>3. PICK i \in 1 .. Len(f.table) : f.table[i] = r
  BY <1>1, <1>2 DEF Tabled, Range
<1>4. ns[r].degree = i - 1
  BY <1>1, <1>3 DEF PopFits
<1> QED BY <1>2, <1>3, <1>4

LEMMA LookStep ==
    ASSUME CalmInv, Look
    PROVE  CalmInv'
<1> DEFINE f == Top
           L == Reached
           d == f.degree
           c == At(f.table, d)
           g == IF c # Null /\ min # Null THEN [f EXCEPT !.at = "scan", !.x = c, !.b = min]
                ELSE [f EXCEPT !.degree = @ + 1]
<1>1. /\ frames # <<>> /\ f.at = "look" /\ nodes' = nodes /\ root' = root /\ min' = min
      /\ UNCHANGED <<size, comparator, throws, failures>>
      /\ frames' = Resume(g)
  BY DEF Look, Running, trees, history
<1>2. /\ f \in PopFrame /\ PopFits(f, nodes, L) /\ LeastFits(f, min, nodes, L)
      /\ Pure => PurePops(f, min, nodes, L)
      /\ \A e : Resume(e) = <<e>>
  BY <1>1, OnTop
<1>3. /\ nodes \in Arena /\ Forest(nodes, root, L) /\ Tops(nodes, L) \subseteq L
      /\ L \subseteq 1 .. Len(nodes) /\ Null \notin L /\ Len(nodes) \in Nat
      /\ \A n \in 1 .. Len(nodes) : n \in Nat
      /\ \A n \in 1 .. Len(nodes) : nodes[n].item \in Int /\ nodes[n].degree \in Nat
  BY CalmFacts
<1>4. frames' = <<g>> /\ Top.at # "tie"
  BY <1>1, <1>2
<1> HIDE DEF f, L
<1>5. d \in Nat /\ f.table \in Seq(Nat) /\ Len(f.table) \in Nat
  BY <1>2 DEF PopFrame
<1>6. min \in L /\ min # Null /\ min \in 1 .. Len(nodes) /\ min \in Nat
  BY <1>2, <1>3 DEF LeastFits
<1>7. f.todo = <<>> /\ Pending(f) = Tabled(f)
  BY <1>1, <1>2 DEF PopFits, Pending, Range
<1>8. /\ min \in Tops(nodes, L) \/ \E i \in d + 1 .. Len(f.table) :
           f.table[i] # Null /\ nodes[f.table[i]].item <= nodes[min].item
  BY <1>1, <1>2 DEF LeastFits
<1>9. CASE c # Null
  <2>1. d < Len(f.table) /\ c = f.table[d + 1] /\ c \in Nat
    BY <1>5, <1>9 DEF At
  <2>2. /\ g.at = "scan" /\ g.x = c /\ g.b = min /\ g.degree = d /\ g.z = f.z
        /\ g.table = f.table /\ g.todo = f.todo
    BY <1>2, <1>6, <1>9 DEF PopFrame
  <2>3. g \in PopFrame
    BY <1>2, <1>6, <1>9, <2>1 DEF PopFrame
  <2> HIDE DEF g
  <2>4. Pending(g) = Pending(f)
    BY <1>1, <2>2 DEF Pending, Tabled
  <2>5. PopFits(g, nodes, L)
    BY <1>2, <1>6, <1>7, <1>9, <2>1, <2>2, <2>4 DEF PopFits
  <2>6. LeastFits(g, min, nodes, L)
    BY <1>6, <1>8, <2>2 DEF LeastFits
  <2>7. Pure => PurePops(g, min, nodes, L)
    BY <1>1, <1>2, <2>2, <2>4 DEF PurePops
  <2> QED BY <1>1, <1>3, <1>4, <2>3, <2>5, <2>6, <2>7, FrameStep DEF L
<1>10. CASE c = Null
  <2>1. d + 1 \in 1 .. Len(f.table) => f.table[d + 1] = Null
    BY <1>5, <1>10 DEF At
  <2>2. /\ g.at = "look" /\ g.degree = d + 1 /\ g.z = f.z
        /\ g.table = f.table /\ g.todo = f.todo
    BY <1>1, <1>2, <1>10 DEF PopFrame
  <2>8. d + 1 \in Nat
    <3>1. d \in Nat
      BY <1>5
    <3> HIDE DEF d
    <3> QED BY <3>1
  <2>3. g \in PopFrame
    BY <1>2, <1>10, <2>8 DEF PopFrame
  <2> HIDE DEF g
  <2>4. Pending(g) = Pending(f)
    BY <1>1, <2>2 DEF Pending, Tabled
  <2>5. PopFits(g, nodes, L)
    BY <1>2, <1>7, <2>2, <2>4 DEF PopFits
  <2>6. LeastFits(g, min, nodes, L)
    <3>1. ASSUME NEW i \in d + 1 .. Len(f.table), f.table[i] # Null
          PROVE  i \in (d + 1) + 1 .. Len(f.table)
      <4>1. i # d + 1 /\ i \in Int
        BY <1>5, <2>1, <3>1
      <4>2. d \in Nat /\ Len(f.table) \in Nat
        BY <1>5
      <4> HIDE DEF d
      <4> QED BY <4>1, <4>2
    <3> QED BY <1>6, <1>8, <2>2, <3>1 DEF LeastFits
  <2>7. Pure => PurePops(g, min, nodes, L)
    <3> SUFFICES ASSUME PurePops(f, min, nodes, L) PROVE PurePops(g, min, nodes, L)
      BY <1>2
    <3>1. ASSUME NEW r \in Tops(nodes, L)
          PROVE  nodes[min].item <= nodes[r].item \/ d + 1 <= nodes[r].degree
      <4>1. nodes[min].item <= nodes[r].item \/ d <= nodes[r].degree
        BY <1>1 DEF PurePops
      <4>2. nodes[r].degree \in Nat
        BY <1>3
      <4>3. nodes[r].degree # d
        <5> SUFFICES ASSUME nodes[r].degree = d PROVE FALSE
          OBVIOUS
        <5>1. d < Len(f.table) /\ f.table[d + 1] = r /\ r # Null
          BY <1>1, <1>2, <1>3, RootsTabled
        <5> QED BY <1>5, <2>1, <5>1
      <4>4. d \in Nat
        BY <1>5
      <4> HIDE DEF d
      <4> QED BY <4>1, <4>2, <4>3, <4>4
    <3> QED BY <2>2, <2>4, <3>1 DEF PurePops
  <2> QED BY <1>1, <1>3, <1>4, <2>3, <2>5, <2>6, <2>7, FrameStep DEF L
<1> QED BY <1>9, <1>10

LEMMA AnswerScanStep ==
    ASSUME CalmInv, AnswerScan
    PROVE  CalmInv'
<1> DEFINE f == Top
           L == Reached
           d == f.degree
           x == f.x
           g == [f EXCEPT !.at = "look", !.degree = @ + 1]
<1>1. /\ frames # <<>> /\ f.at = "scan" /\ nodes' = nodes /\ root' = root
      /\ min' = IF nodes[x].item <= nodes[f.b].item THEN x ELSE min
      /\ UNCHANGED <<size, comparator, throws, failures>>
      /\ frames' = Resume(g)
  BY DEF AnswerScan, Running, trees, history
<1>2. /\ f \in PopFrame /\ PopFits(f, nodes, L) /\ LeastFits(f, min, nodes, L)
      /\ Pure => PurePops(f, min, nodes, L)
      /\ \A e : Resume(e) = <<e>>
  BY <1>1, OnTop
<1>3. /\ nodes \in Arena /\ Forest(nodes, root, L) /\ Tops(nodes, L) \subseteq L
      /\ L \subseteq 1 .. Len(nodes) /\ Null \notin L /\ Len(nodes) \in Nat
      /\ \A n \in 1 .. Len(nodes) : nodes[n].item \in Int /\ nodes[n].degree \in Nat
  BY CalmFacts
<1>4. frames' = <<g>> /\ Top.at # "tie"
  BY <1>1, <1>2
<1> HIDE DEF f, L
<1>5. d \in Nat /\ f.table \in Seq(Nat) /\ Len(f.table) \in Nat
  BY <1>2 DEF PopFrame
<1>6. min \in L /\ min \in 1 .. Len(nodes)
  BY <1>2, <1>3 DEF LeastFits
<1>7. f.todo = <<>> /\ Pending(f) = Tabled(f)
  BY <1>1, <1>2 DEF PopFits, Pending, Range
<1>8. /\ d < Len(f.table) /\ x = f.table[d + 1] /\ x # Null /\ d + 1 \in 1 .. Len(f.table)
      /\ x \in Tops(nodes, L) /\ x \in L /\ f.b \in 1 .. Len(nodes)
  <2>1. d < Len(f.table) /\ x = f.table[d + 1] /\ x # Null /\ f.b \in 1 .. Len(nodes)
    BY <1>1, <1>2 DEF PopFits
  <2>2. d + 1 \in 1 .. Len(f.table)
    BY <1>5, <2>1
  <2>3. x \in Tabled(f)
    BY <1>5, <2>1, <2>2 DEF Tabled, Range
  <2> QED BY <1>2, <1>3, <1>7, <2>1, <2>2, <2>3 DEF PopFits
<1>9. /\ g.at = "look" /\ g.degree = d + 1 /\ g.z = f.z /\ g.table = f.table /\ g.todo = f.todo
  BY <1>2 DEF PopFrame
<1>16. d + 1 \in Nat
  <2>1. d \in Nat
    BY <1>5
  <2> HIDE DEF d
  <2> QED BY <2>1
<1>10. g \in PopFrame
  BY <1>2, <1>16 DEF PopFrame
<1> HIDE DEF g
<1>11. Pending(g) = Pending(f)
  BY <1>1, <1>9 DEF Pending, Tabled
<1>12. PopFits(g, nodes, L)
  BY <1>2, <1>7, <1>9, <1>11 DEF PopFits
<1>13. /\ nodes[x].item \in Int /\ nodes[f.b].item \in Int /\ nodes[min].item \in Int
  BY <1>3, <1>6, <1>8
<1>14. LeastFits(g, min', nodes, L)
  <2>1. CASE nodes[x].item <= nodes[f.b].item
    BY <1>1, <1>8, <1>9, <2>1 DEF LeastFits
  <2>2. CASE ~(nodes[x].item <= nodes[f.b].item) /\ min \in Tops(nodes, L)
    BY <1>1, <1>6, <1>9, <2>2 DEF LeastFits
  <2>3. CASE ~(nodes[x].item <= nodes[f.b].item) /\ min \notin Tops(nodes, L)
    <3>1. min' = min /\ f.b = min
      BY <1>1, <1>2, <2>3 DEF LeastFits
    <3>2. PICK i \in d + 1 .. Len(f.table) : f.table[i] # Null /\ nodes[f.table[i]].item <= nodes[min].item
      BY <1>1, <1>2, <2>3 DEF LeastFits
    <3>3. i # d + 1
      BY <1>8, <2>3, <3>1, <3>2
    <3>4. i \in (d + 1) + 1 .. Len(f.table)
      <4>1. d \in Nat /\ Len(f.table) \in Nat /\ i \in d + 1 .. Len(f.table) /\ i # d + 1
        BY <1>5, <3>3
      <4> HIDE DEF d
      <4> QED BY <4>1
    <3> QED BY <1>6, <1>9, <3>1, <3>2, <3>4 DEF LeastFits
  <2> QED BY <2>1, <2>2, <2>3
<1>15. Pure => PurePops(g, min', nodes, L)
  <2> SUFFICES ASSUME PurePops(f, min, nodes, L) PROVE PurePops(g, min', nodes, L)
    BY <1>2
  <2>1. f.b = min
    BY <1>1 DEF PurePops
  <2>2. ASSUME NEW r \in Tops(nodes, L)
        PROVE  nodes[min'].item <= nodes[r].item \/ d + 1 <= nodes[r].degree
    <3>1. nodes[min].item <= nodes[r].item \/ d <= nodes[r].degree
      BY <1>1 DEF PurePops
    <3>2. nodes[r].degree \in Nat /\ nodes[r].item \in Int
      BY <1>3
    <3>3. nodes[r].degree = d => r = x
      BY <1>1, <1>2, <1>3, <1>8, RootsTabled
    <3>4. nodes[min'].item <= nodes[x].item /\ nodes[min'].item <= nodes[min].item /\ nodes[min'].item \in Int
      <4>1. CASE nodes[x].item <= nodes[min].item
        BY <1>1, <1>13, <2>1, <4>1
      <4>2. CASE ~(nodes[x].item <= nodes[min].item)
        BY <1>1, <1>13, <2>1, <4>2
      <4> QED BY <4>1, <4>2
    <3>5. CASE nodes[min].item <= nodes[r].item
      BY <1>13, <3>2, <3>4, <3>5
    <3>6. CASE nodes[r].degree = d
      BY <3>3, <3>4, <3>6
    <3>7. CASE d <= nodes[r].degree /\ nodes[r].degree # d
      <4>1. d \in Nat
        BY <1>5
      <4> HIDE DEF d
      <4> QED BY <3>2, <3>7, <4>1
    <3> QED BY <3>1, <3>5, <3>6, <3>7
  <2> QED BY <1>9, <1>11, <2>2 DEF PurePops
<1> QED BY <1>1, <1>3, <1>4, <1>10, <1>12, <1>14, <1>15, FrameStep DEF L


LEMMA FinishStep ==
    ASSUME Calm, CalmInv, Finish
    PROVE  CalmInv'
<1> DEFINE f == Top
           L == Reached
           d == f.degree
<1>1. /\ frames # <<>> /\ f.at = "look" /\ nodes' = nodes /\ root' = root /\ min' = min
      /\ d >= size /\ size' = size - 1 /\ frames' = SubSeq(frames, 1, Len(frames) - 1)
      /\ comparator' = comparator /\ throws' = throws /\ failures' = failures
  BY DEF Finish, Running, Return, trees, history
<1>2. /\ f \in PopFrame /\ PopFits(f, nodes, L) /\ LeastFits(f, min, nodes, L)
      /\ Pure => PurePops(f, min, nodes, L)
      /\ Len(frames) = 1 /\ Popping(frames)
  BY <1>1, OnTop
<1>3. /\ nodes \in Arena /\ Forest(nodes, root, L) /\ Tops(nodes, L) \subseteq L
      /\ L \subseteq 1 .. Len(nodes) /\ failures = {} /\ FramesFit(frames, nodes, L)
      /\ \A n \in 1 .. Len(nodes) : nodes[n].item \in Int /\ nodes[n].degree \in Nat
      /\ Cardinality(L) \in Nat
  BY CalmFacts
<1>4. SizeFits(size, frames, throws, L)
  BY DEF CalmInv
<1>5. Len(throws) \in Nat /\ Len(throws) <= 1
  BY CalmThrows
<1>6. frames' = <<>>
  <2>1. frames \in Seq(TieFrame \cup PopFrame)
    BY <1>3 DEF FramesFit
  <2>2. /\ SubSeq(frames, 1, Len(frames) - 1) \in Seq(TieFrame \cup PopFrame)
        /\ Len(SubSeq(frames, 1, Len(frames) - 1)) = Len(frames) - 1
    BY <1>1, <2>1, FrontFacts
  <2> QED BY <1>1, <1>2, <2>2, EmptySeq
<1>7. Reached' = L
  BY <1>1, StillForest
<1>8. FramesFit(frames', nodes, L) /\ ~Popping(frames') /\ Len(frames') = 0
  BY <1>6, FramesNone
<1> HIDE DEF f, L
<1>9. d \in Nat /\ f.table \in Seq(Nat) /\ Len(f.table) \in Nat
  BY <1>2 DEF PopFrame
<1>10. /\ size' \in Nat /\ size' <= Cardinality(L) /\ Cardinality(L) <= size' + Len(throws)
       /\ Cardinality(L) <= d
  <2> DEFINE k == Cardinality(L)
             a == Len(frames)
             c == Len(throws)
  <2>1. /\ size \in Nat /\ size > 0 /\ (size + a) - 2 <= k /\ k <= ((size + a) - 2) + c
        /\ a = 1 /\ k \in Nat /\ c \in Nat /\ c <= 1
    BY <1>2, <1>3, <1>4, <1>5 DEF SizeFits
  <2> HIDE DEF k, a, c, d
  <2>2. size' \in Nat /\ size' <= k /\ k <= size' + c /\ k <= d
    BY <1>1, <1>9, <2>1
  <2> QED BY <2>2 DEF k, c
<1>11. ASSUME NEW n \in L PROVE nodes[n].degree < d /\ nodes[n].degree \in Nat
  <2>1. nodes[n].degree \in Nat /\ nodes[n].degree < Cardinality(L)
    BY <1>3, ForestSize
  <2> HIDE DEF d
  <2> QED BY <1>3, <1>9, <1>10, <2>1
<1>12. min \in Tops(nodes, L)
  <2> SUFFICES ASSUME min \notin Tops(nodes, L) PROVE FALSE
    OBVIOUS
  <2>1. PICK i \in d + 1 .. Len(f.table) : f.table[i] # Null
    BY <1>1, <1>2 DEF LeastFits
  <2>2. i \in 1 .. Len(f.table) /\ i - 1 >= d /\ i - 1 \in Nat
    <3>1. d \in Nat /\ i \in d + 1 .. Len(f.table) /\ Len(f.table) \in Nat
      BY <1>9
    <3> HIDE DEF d
    <3> QED BY <3>1
  <2>3. nodes[f.table[i]].degree = i - 1
    BY <1>2, <2>1, <2>2 DEF PopFits
  <2>4. f.table[i] \in Tabled(f)
    BY <1>9, <2>1, <2>2 DEF Tabled, Range
  <2>5. f.table[i] \in L
    BY <1>2, <1>3, <2>4 DEF PopFits, Pending
  <2>6. nodes[f.table[i]].degree < d
    BY <1>11, <2>5
  <2> HIDE DEF d
  <2> QED BY <1>9, <2>2, <2>3, <2>6
<1>13. MinFits(frames', min', nodes, L)
  BY <1>1, <1>8, <1>12 DEF MinFits
<1>14. SizeFits(size', frames', throws', L)
  <2> DEFINE k == Cardinality(L)
             a == Len(frames')
             c == Len(throws)
             s == size'
  <2>1. s \in Nat /\ s <= k /\ k <= s + c /\ a = 0 /\ k \in Nat /\ c \in Nat
    BY <1>3, <1>5, <1>8, <1>10
  <2> HIDE DEF k, a, c, s
  <2>2. (s + a) - 0 <= k /\ k <= ((s + a) - 0) + c
    BY <2>1
  <2> QED BY <1>1, <1>8, <2>1, <2>2 DEF SizeFits, k, a, c, s
<1>15. Pure => PureFits(frames', min', nodes, L)
  <2> SUFFICES ASSUME Pure PROVE PureFits(frames', min', nodes, L)
    OBVIOUS
  <2>1. \A r \in Tops(nodes, L) : nodes[min].item <= nodes[r].item \/ d <= nodes[r].degree
    BY <1>1, <1>2 DEF PurePops
  <2>2. ASSUME NEW n \in L PROVE nodes[min].item <= nodes[n].item
    <3>1. PICK r \in Kids(nodes, L, Null) : nodes[r].item <= nodes[n].item
      BY <1>3, RootAbove
    <3>2. r \in Tops(nodes, L) /\ r \in L
      BY <1>3 DEF Tops
    <3>3. nodes[min].item <= nodes[r].item
      <4>1. nodes[r].degree < d /\ nodes[r].degree \in Nat
        BY <1>11, <3>2
      <4>2. ~(d <= nodes[r].degree)
        <5> HIDE DEF d
        <5> QED BY <1>9, <4>1
      <4> QED BY <2>1, <3>2, <4>2
    <3>4. nodes[min].item \in Int /\ nodes[r].item \in Int /\ nodes[n].item \in Int
      BY <1>3, <1>12, <3>2
    <3> QED BY <3>1, <3>3, <3>4
  <2> QED BY <1>1, <1>6, <1>8, <2>2 DEF PureFits
<1>16. Pure' <=> Pure
  BY <1>1 DEF Pure
<1> QED BY <1>1, <1>3, <1>7, <1>8, <1>13, <1>14, <1>15, <1>16 DEF CalmInv

-----------------------------------------------------------------------------
(* The invariant *)

LEMMA InitCalm ==
    ASSUME Init
    PROVE  CalmInv
<1>1. /\ nodes = <<>> /\ root = Null /\ min = Null /\ size = 0 /\ frames = <<>>
      /\ throws = <<>> /\ failures = {}
  BY DEF Init
<1>2. nodes \in Arena /\ Forest(nodes, root, {})
  BY <1>1, ForestNone DEF Arena
<1>3. Reached = {}
  BY <1>2, ReachedIs DEF ReachedRight
<1>4. FramesFit(frames, nodes, {}) /\ ~Popping(frames) /\ Len(frames) = 0
  BY <1>1, FramesNone
<1>5. MinFits(frames, min, nodes, {})
  BY <1>1, <1>4 DEF MinFits
<1>6. SizeFits(size, frames, throws, {})
  <2>1. Cardinality({}) = 0 /\ Len(throws) = 0
    BY <1>1, FS_EmptySet
  <2> QED BY <1>1, <1>4, <2>1 DEF SizeFits
<1>7. PureFits(frames, min, nodes, {})
  BY <1>1, <1>4 DEF PureFits
<1> QED BY <1>1, <1>2, <1>3, <1>4, <1>5, <1>6, <1>7 DEF CalmInv

LEMMA ThrownNext ==
    ASSUME throws \in Seq(Comparing), Throw, Calm'
    PROVE  throws = <<>> /\ Top.at = "tie"
<1>1. throws' = Append(throws, Top.at) /\ (throws' = <<>> \/ throws' = <<"tie">>)
  BY DEF Throw, Calm, AtMostOnePushThrew
<1> DEFINE ts == throws'
<1>2. Len(ts) = Len(throws) + 1 /\ ts[Len(throws) + 1] = Top.at /\ Len(throws) \in Nat
  BY <1>1
<1>3. (ts = <<>> => Len(ts) = 0) /\ (ts = <<"tie">> => Len(ts) = 1 /\ ts[1] = "tie")
  OBVIOUS
<1> HIDE DEF ts
<1>4. ts = <<"tie">>
  <2> SUFFICES ASSUME ts = <<>> PROVE FALSE
    BY <1>1 DEF ts
  <2> DEFINE k == Len(throws)
  <2>1. k + 1 = 0 /\ k \in Nat
    BY <1>2, <1>3
  <2> HIDE DEF k
  <2> QED BY <2>1
<1>5. Len(throws) = 0
  <2> DEFINE k == Len(throws)
  <2>1. k + 1 = 1 /\ k \in Nat
    BY <1>2, <1>3, <1>4
  <2> HIDE DEF k
  <2>2. k = 0
    BY <2>1
  <2> QED BY <2>2 DEF k
<1> QED BY <1>2, <1>3, <1>4, <1>5, EmptySeq

LEMMA CalmStays ==
    ASSUME throws \in Seq(Comparing), [Next]_vars, Calm'
    PROVE  Calm
<1>1. CASE Throw
  <2>1. comparator' = comparator /\ throws = <<>>
    BY <1>1, ThrownNext DEF Throw
  <2> QED BY <2>1 DEF Calm, AtMostOnePushThrew
<1>2. CASE UNCHANGED <<comparator, throws>>
  BY <1>2 DEF Calm, AtMostOnePushThrew
<1>3. [Next]_vars => Throw \/ UNCHANGED <<comparator, throws>>
  BY DEF Next, Push, AnswerTie, Clear, PopEmpty, PopNothing, Pop, NextRoot, Bucket, AnswerLink,
         Look, AnswerScan, Finish, Fail, vars, history
<1> QED BY <1>1, <1>2, <1>3

LEMMA InitInv ==
    ASSUME Init
    PROVE  Inv
<1>1. comparator \in Comparators /\ throws = <<>>
  BY DEF Init
<1>2. comparator.throws \in Nat
  BY <1>1, BoundsAssumption
<1>3. throws \in Seq(Comparing) /\ Len(throws) = 0
  BY <1>1
<1> QED BY <1>1, <1>2, <1>3, InitCalm DEF Inv

LEMMA NextCalm ==
    ASSUME throws \in Seq(Comparing), CalmInv, [Next]_vars, Calm, Calm'
    PROVE  CalmInv'
<1>1. ASSUME NEW v \in Items, Push(v) PROVE CalmInv'
  BY <1>1, PushStep
<1>2. CASE AnswerTie
  BY <1>2, AnswerTieStep
<1>3. CASE Clear
  BY <1>3, ClearStep
<1>4. CASE PopEmpty
  BY <1>4, PopEmptyStep
<1>5. CASE PopNothing
  BY <1>5, PopNothingStep
<1>6. CASE Pop
  BY <1>6, PopStep
<1>7. CASE NextRoot
  BY <1>7, NextRootStep
<1>8. CASE Bucket
  BY <1>8, BucketStep
<1>9. CASE AnswerLink
  BY <1>9, AnswerLinkStep
<1>10. CASE Look
  BY <1>10, LookStep
<1>11. CASE AnswerScan
  BY <1>11, AnswerScanStep
<1>12. CASE Finish
  BY <1>12, FinishStep
<1>13. CASE Throw
  <2>1. throws = <<>> /\ Top.at = "tie"
    BY <1>13, ThrownNext
  <2> QED BY <1>13, <2>1, ThrowStep
<1>14. CASE UNCHANGED vars
  BY <1>14, StillCalm DEF vars
<1> QED BY <1>1, <1>2, <1>3, <1>4, <1>5, <1>6, <1>7, <1>8, <1>9, <1>10, <1>11, <1>12, <1>13,
           <1>14 DEF Next

(* Where a comparison can throw. *)
LEMMA TopCompares ==
    ASSUME Throw
    PROVE  Top.at \in Comparing
  BY DEF Throw, Running

LEMMA NextInv ==
    ASSUME Inv, [Next]_vars
    PROVE  Inv'
<1>1. /\ comparator \in Comparators /\ throws \in Seq(Comparing)
      /\ Len(throws) <= comparator.throws /\ (Calm => CalmInv)
  BY DEF Inv
<1>2. comparator' = comparator
  BY DEF Next, Push, AnswerTie, Clear, PopEmpty, PopNothing, Pop, NextRoot, Bucket, AnswerLink,
         Look, AnswerScan, Finish, Fail, Throw, vars, history
<1>3. throws' \in Seq(Comparing) /\ Len(throws') <= comparator.throws
  <2>1. CASE Throw
    <3>1. throws' = Append(throws, Top.at) /\ Len(throws) < comparator.throws /\ Top.at \in Comparing
      BY <2>1, TopCompares DEF Throw
    <3>2. throws' \in Seq(Comparing) /\ Len(throws') = Len(throws) + 1
      BY <1>1, <3>1
    <3> DEFINE k == Len(throws)
               c == comparator.throws
    <3>3. k \in Nat /\ c \in Nat /\ k < c
      BY <1>1, <3>1, BoundsAssumption
    <3> HIDE DEF k, c
    <3>4. k + 1 <= c
      BY <3>3
    <3> QED BY <3>2, <3>4 DEF k, c
  <2>2. [Next]_vars => Throw \/ throws' = throws
    BY DEF Next, Push, AnswerTie, Clear, PopEmpty, PopNothing, Pop, NextRoot, Bucket, AnswerLink,
           Look, AnswerScan, Finish, Fail, vars, history
  <2> QED BY <1>1, <2>1, <2>2
<1>4. Calm' => CalmInv'
  BY <1>1, CalmStays, NextCalm
<1> QED BY <1>1, <1>2, <1>3, <1>4 DEF Inv

(* Every reachable state of structures/fibonacci_heap.rs has the inductive  *)
(* invariant, whatever the bounds and the comparators are.                  *)
THEOREM InvHolds == Spec => []Inv
<1>1. Init => Inv
  BY InitInv
<1>2. Inv /\ [Next]_vars => Inv'
  BY NextInv
<1> QED BY <1>1, <1>2, PTL DEF Spec

-----------------------------------------------------------------------------
(* What the invariant says of the heap *)

LEMMA CalmShape ==
    ASSUME CalmInv
    PROVE  /\ Roots = Tops(nodes, Reached)
           /\ \A n \in Reached : Below(n) = Kids(nodes, Reached, n)
  BY ReachedIs DEF ReachedRight, CalmInv, Tops

LEMMA InvShape ==
    ASSUME Inv
    PROVE  Shape
<1> DEFINE L == Reached
<1> SUFFICES ASSUME CalmInv
             PROVE  /\ \A n \in L :
                        /\ nodes[nodes[n].right].left = n
                        /\ \A c \in Below(n) : nodes[c].parent = n /\ nodes[n].item <= nodes[c].item
                        /\ Cardinality(Below(n)) = nodes[n].degree
                    /\ \A n \in Roots : nodes[n].parent = Null
  BY DEF Shape, Inv, Calm
<1>1. nodes \in Arena /\ Forest(nodes, root, L) /\ Null \notin L
  BY CalmFacts
<1>2. Roots = Tops(nodes, L) /\ \A n \in L : Below(n) = Kids(nodes, L, n)
  BY CalmShape
<1> HIDE DEF L
<1>3. ASSUME NEW n \in L
      PROVE  /\ nodes[nodes[n].right].left = n
             /\ \A c \in Below(n) : nodes[c].parent = n /\ nodes[n].item <= nodes[c].item
             /\ Cardinality(Below(n)) = nodes[n].degree
  <2>1. nodes[n].parent \in L \cup {Null}
    BY <1>1 DEF Forest
  <2>2. Cycle(nodes, Kids(nodes, L, nodes[n].parent)) /\ n \in Kids(nodes, L, nodes[n].parent)
    BY <1>1, <2>1 DEF Forest, Kids
  <2>3. nodes[nodes[n].right].left = n
    BY <2>2 DEF Cycle
  <2>4. ASSUME NEW c \in Below(n) PROVE nodes[c].parent = n /\ nodes[n].item <= nodes[c].item
    <3>1. c \in L /\ nodes[c].parent = n /\ n # Null
      BY <1>1, <1>2 DEF Kids
    <3>2. nodes[c].parent # Null => nodes[nodes[c].parent].item <= nodes[c].item
      BY <1>1, <3>1 DEF Forest
    <3> QED BY <3>1, <3>2
  <2>5. Cardinality(Below(n)) = nodes[n].degree
    BY <1>1, <1>2 DEF Forest
  <2> QED BY <2>3, <2>4, <2>5
<1>4. \A n \in Roots : nodes[n].parent = Null
  BY <1>2 DEF Tops, Kids
<1> QED BY <1>3, <1>4

(* Between any two comparisons the lists of structures/fibonacci_heap.rs    *)
(* are rings in both directions, no child is smaller than its parent and a  *)
(* degree is the number of children: insert_after, remove_from_root and     *)
(* link leave no pointer astray, pushes of the comparator's included.       *)
THEOREM ShapeHolds == Spec => []Shape
<1>1. Inv => Shape
  BY InvShape
<1> QED BY <1>1, InvHolds, PTL

LEMMA IdleCounts ==
    ASSUME CalmInv, Idle
    PROVE  /\ size \in Nat /\ size <= Cardinality(Reached)
           /\ Cardinality(Reached) <= size + Len(throws)
           /\ ~Popping(frames)
<1>1. ~Popping(frames) /\ Len(frames) = 0
  BY FramesNone DEF Idle
<1>2. SizeFits(size, frames, throws, Reached)
  BY DEF CalmInv
<1> DEFINE k == Len(frames)
           c == Cardinality(Reached)
<1>3. size \in Nat /\ (size + k) - 0 <= c /\ c <= ((size + k) - 0) + Len(throws) /\ k = 0
  BY <1>1, <1>2 DEF SizeFits
<1> HIDE DEF k, c
<1>4. size + 0 - 0 = size
  BY <1>3
<1>5. size <= c /\ c <= size + Len(throws)
  BY <1>3, <1>4
<1> QED BY <1>1, <1>3, <1>5 DEF c

LEMMA InvSizeCounts ==
    ASSUME Inv
    PROVE  SizeCounts
<1> SUFFICES ASSUME CalmInv, Calm, Idle
             PROVE  /\ size <= Cardinality(Reached)
                    /\ throws = <<>> => size = Cardinality(Reached)
  BY DEF SizeCounts, Inv, Calm
<1>1. /\ size \in Nat /\ size <= Cardinality(Reached)
      /\ Cardinality(Reached) <= size + Len(throws)
  BY IdleCounts
<1>2. Cardinality(Reached) \in Nat
  BY CalmFacts
<1>3. ASSUME throws = <<>> PROVE size = Cardinality(Reached)
  <2> DEFINE c == Cardinality(Reached)
             k == Len(throws)
  <2>1. k = 0 /\ size \in Nat /\ c \in Nat /\ size <= c /\ c <= size + k
    BY <1>1, <1>2, <1>3
  <2> HIDE DEF c, k
  <2>2. size = c
    BY <2>1
  <2> QED BY <2>2 DEF c
<1> QED BY <1>1, <1>3

(* When no call is under way the size of structures/fibonacci_heap.rs is    *)
(* the number of its nodes, pushes made inside a pop included; after a push *)
(* that was cut short it is behind by one at most.                          *)
THEOREM SizeCountsHolds == Spec => []SizeCounts
<1>1. Inv => SizeCounts
  BY InvSizeCounts
<1> QED BY <1>1, InvHolds, PTL

LEMMA PureCalm ==
    ASSUME Inv, Pure
    PROVE  Calm /\ CalmInv /\ throws = <<>> /\ ~Throw
<1>1. /\ throws \in Seq(Comparing) /\ Len(throws) <= 0 /\ comparator.calls = {}
      /\ comparator.throws = 0
  BY DEF Inv, Pure
<1>2. Len(throws) \in Nat
  BY <1>1
<1> DEFINE k == Len(throws)
<1>3. k \in Nat /\ k <= 0
  BY <1>1, <1>2
<1> HIDE DEF k
<1>4. k = 0 /\ ~(k < 0)
  BY <1>3
<1>5. throws = <<>>
  BY <1>1, <1>4, EmptySeq DEF k
<1>6. Calm
  BY <1>1, <1>5 DEF Calm, AtMostOnePushThrew
<1>7. ~Throw
  BY <1>1, <1>4 DEF Throw, k
<1> QED BY <1>5, <1>6, <1>7 DEF Inv

(* With a pure comparator and no call under way, min is a least node.      *)
LEMMA PureIdle ==
    ASSUME CalmInv, Pure, Idle
    PROVE  /\ min = Null => Reached = {}
           /\ min # Null => min \in Tops(nodes, Reached)
           /\ \A n \in Reached : nodes[min].item <= nodes[n].item
<1>1. ~Popping(frames)
  BY IdleCounts
<1>2. MinFits(frames, min, nodes, Reached) /\ PureFits(frames, min, nodes, Reached)
  BY DEF CalmInv
<1>3. Null \notin Reached /\ Tops(nodes, Reached) \subseteq Reached
  BY CalmFacts
<1> QED BY <1>1, <1>2, <1>3 DEF MinFits, PureFits, Idle

LEMMA InvPeek ==
    ASSUME Inv
    PROVE  PeekIsLeast
<1> SUFFICES ASSUME Pure, Idle
             PROVE  /\ min = Null => Reached = {}
                    /\ min # Null => /\ min \in Roots
                                     /\ \A n \in Reached : nodes[min].item <= nodes[n].item
  BY DEF PeekIsLeast
<1>1. CalmInv
  BY PureCalm
<1>2. Roots = Tops(nodes, Reached)
  BY <1>1, CalmShape
<1> QED BY <1>1, <1>2, PureIdle

(* With a comparator that only answers, peek of structures/                 *)
(* fibonacci_heap.rs answers with a root no item is less than: the scan of  *)
(* consolidate, which stops at the size, comes to every root there is.      *)
THEOREM PeekHolds == Spec => []PeekIsLeast
<1>1. Inv => PeekIsLeast
  BY InvPeek
<1> QED BY <1>1, InvHolds, PTL

(* No call fails and no walk is endless, as long as the comparator calls   *)
(* nothing but push and threw out of one push at most.                     *)
NothingFails == Calm => failures = {}

(* pop of structures/fibonacci_heap.rs neither panics on a null pointer nor *)
(* walks a list without end, whatever a comparator pushes while it is       *)
(* asked, even after one push was cut short.                                *)
THEOREM CalmNeverFails == Spec => []NothingFails
<1>1. Inv => NothingFails
  BY DEF Inv, CalmInv, NothingFails
<1> QED BY <1>1, InvHolds, PTL

-----------------------------------------------------------------------------
(* The priority queue *)

(* How many nodes of H hold each item.                                     *)
Bag(ns, H) == [v \in Items |-> Cardinality({n \in H : ns[n].item = v})]

LEMMA BagNat ==
    ASSUME NEW ns, NEW H, IsFiniteSet(H)
    PROVE  Bag(ns, H) \in [Items -> Nat]
<1>1. ASSUME NEW v \in Items PROVE Cardinality({n \in H : ns[n].item = v}) \in Nat
  <2>1. {n \in H : ns[n].item = v} \in SUBSET H
    OBVIOUS
  <2> QED BY <2>1, FS_Subset, FS_CardinalityType
<1> QED BY <1>1 DEF Bag

(* C holds one v more than B.                                              *)
OneMore(B, C, v) == C = [B EXCEPT ![v] = @ + 1] /\ B = [C EXCEPT ![v] = @ - 1]

LEMMA BagAdds ==
    ASSUME NEW ns, NEW H, IsFiniteSet(H), NEW n, n \notin H, ns[n].item \in Items
    PROVE  OneMore(Bag(ns, H), Bag(ns, H \cup {n}), ns[n].item)
<1> DEFINE B == Bag(ns, H)
           C == Bag(ns, H \cup {n})
           At1(v) == {m \in H : ns[m].item = v}
           At2(v) == {m \in H \cup {n} : ns[m].item = v}
<1>1. ASSUME NEW v \in Items PROVE IsFiniteSet(At1(v)) /\ Cardinality(At1(v)) \in Nat
  <2>1. At1(v) \in SUBSET H
    OBVIOUS
  <2> QED BY <2>1, FS_Subset, FS_CardinalityType
<1>2. ASSUME NEW v \in Items, v # ns[n].item PROVE At2(v) = At1(v)
  BY <1>2
<1>3. At2(ns[n].item) = At1(ns[n].item) \cup {n} /\ n \notin At1(ns[n].item)
  OBVIOUS
<1>4. B = [v \in Items |-> Cardinality(At1(v))] /\ C = [v \in Items |-> Cardinality(At2(v))]
  BY DEF Bag
<1> HIDE DEF B, C, At1, At2
<1>5. Cardinality(At2(ns[n].item)) = Cardinality(At1(ns[n].item)) + 1
  BY <1>1, <1>3, FS_AddElement
<1>6. C = [B EXCEPT ![ns[n].item] = @ + 1]
  BY <1>2, <1>4, <1>5
<1>7. B = [C EXCEPT ![ns[n].item] = @ - 1]
  <2>1. B[ns[n].item] = C[ns[n].item] - 1
    BY <1>1, <1>4, <1>5
  <2>2. \A v \in Items : v # ns[n].item => B[v] = C[v]
    BY <1>2, <1>4
  <2> QED BY <1>4, <2>1, <2>2
<1> QED BY <1>6, <1>7 DEF B, C, OneMore

LEMMA BagSame ==
    ASSUME NEW ns, NEW ns2, NEW H, \A n \in H : ns2[n].item = ns[n].item
    PROVE  Bag(ns2, H) = Bag(ns, H)
<1>1. \A v : {n \in H : ns2[n].item = v} = {n \in H : ns[n].item = v}
  OBVIOUS
<1> QED BY <1>1 DEF Bag

LEMMA BagHolds ==
    ASSUME NEW ns, NEW H, IsFiniteSet(H), NEW v \in Items
    PROVE  Bag(ns, H)[v] > 0 <=> \E n \in H : ns[n].item = v
<1> DEFINE S == {n \in H : ns[n].item = v}
<1>1. S \in SUBSET H
  OBVIOUS
<1>2. IsFiniteSet(S) /\ Cardinality(S) \in Nat
  BY <1>1, FS_Subset, FS_CardinalityType
<1>3. Cardinality(S) = 0 <=> S = {}
  BY <1>2, FS_EmptySet
<1>4. Bag(ns, H)[v] = Cardinality(S)
  BY DEF Bag
<1> HIDE DEF S
<1>5. Bag(ns, H)[v] > 0 <=> S # {}
  BY <1>2, <1>3, <1>4
<1> QED BY <1>5 DEF S

(* The nodes whose items are in the queue: not the one being pushed yet,   *)
(* still the one being popped.                                             *)
Kept(fs, L) ==
    IF fs = <<>> THEN L
    ELSE IF fs[1].at = "tie" THEN L \ {fs[1].x} ELSE L \cup {fs[1].z}

(* What the mapping shows, in these words.                                  *)
ContentRight ==
    CalmInv /\ Pure =>
        /\ content = Bag(nodes, Kept(frames, Reached))
        /\ IsFiniteSet(Kept(frames, Reached)) /\ Kept(frames, Reached) \subseteq 1 .. Len(nodes)

LEMMA ContentIs == ContentRight
<1> DEFINE K == Kept(frames, Reached)
<1> SUFFICES ASSUME CalmInv, Pure
             PROVE  content = Bag(nodes, K) /\ IsFiniteSet(K) /\ K \subseteq 1 .. Len(nodes)
  BY DEF ContentRight
<1>1. /\ FramesFit(frames, nodes, Reached) /\ IsFiniteSet(Reached)
      /\ Reached \subseteq 1 .. Len(nodes)
  BY CalmFacts
<1>2. Len(frames) <= 1 /\ (Popping(frames) => PopFits(frames[1], nodes, Reached))
  BY DEF CalmInv, PureFits
<1>3. frames \in Seq(TieFrame \cup PopFrame)
  BY <1>1 DEF FramesFit
<1> DEFINE pushing == {f \in Range(frames) : f.at = "tie"}
           inside == Reached \cup {f.z : f \in Range(frames) \ pushing}
<1>4. inside \ {f.x : f \in pushing} = K
  <2>1. CASE frames = <<>>
    <3>1. Range(frames) = {}
      BY <2>1 DEF Range
    <3> QED BY <2>1, <3>1 DEF Kept
  <2>2. CASE frames # <<>>
    <3>1. Len(frames) = 1
      BY <1>2, <1>3, <2>2, FrontFacts, JustOne
    <3>2. Range(frames) = {frames[1]}
      BY <1>3, <3>1 DEF Range
    <3>3. CASE frames[1].at = "tie"
      <4>1. pushing = {frames[1]}
        BY <3>2, <3>3
      <4> HIDE DEF pushing
      <4> QED BY <2>2, <3>2, <3>3, <4>1 DEF Kept
    <3>4. CASE frames[1].at # "tie"
      <4>1. pushing = {}
        BY <3>2, <3>4
      <4> HIDE DEF pushing
      <4> QED BY <2>2, <3>2, <3>4, <4>1 DEF Kept
    <3> QED BY <3>3, <3>4
  <2> QED BY <2>1, <2>2
<1>5. content = Bag(nodes, K)
  BY <1>4 DEF content, Bag
<1>6. IsFiniteSet(K)
  <2>1. IsFiniteSet(Reached \cup {frames[1].z}) /\ Reached \ {frames[1].x} \in SUBSET Reached
    BY <1>1, FS_AddElement
  <2>2. IsFiniteSet(Reached \ {frames[1].x})
    BY <1>1, <2>1, FS_Subset
  <2> QED BY <1>1, <2>1, <2>2 DEF Kept
<1>7. K \subseteq 1 .. Len(nodes)
  <2>1. frames # <<>> /\ frames[1].at # "tie" => frames[1].z \in 1 .. Len(nodes)
    BY <1>2 DEF Popping, PopFits
  <2> QED BY <1>1, <2>1 DEF Kept
<1> QED BY <1>5, <1>6, <1>7

LEMMA AbstractPush ==
    ASSUME Pure, Pure', NEW v \in Items,
           content' = [content EXCEPT ![v] = @ + 1], popped' = popped
    PROVE  Abstract!Push(v)
  BY DEF Abstract!Push

LEMMA AbstractPop ==
    ASSUME Pure, Pure', NEW ns, NEW K, IsFiniteSet(K), content = Bag(ns, K),
           NEW z \in K, ns[z].item \in Items, \A n \in K : ns[z].item <= ns[n].item,
           content' = [content EXCEPT ![ns[z].item] = @ - 1], popped' = ns[z].item
    PROVE  Abstract!Pop
<1> DEFINE v == ns[z].item
<1>1. v \in Items /\ content[v] > 0
  BY BagHolds
<1>2. ASSUME NEW u \in Items, content[u] > 0 PROVE v <= u
  BY <1>2, BagHolds
<1> HIDE DEF v
<1>3. Abstract!Held = {u \in Items : content[u] > 0}
  BY DEF Abstract!Held
<1>4. Abstract!Least(v) /\ Abstract!Held # {}
  BY <1>1, <1>2, <1>3 DEF Abstract!Least
<1>5. content' = [content EXCEPT ![v] = @ - 1] /\ popped' = v
  BY DEF v
<1> QED BY <1>1, <1>4, <1>5 DEF Abstract!Pop

LEMMA AbstractPopEmpty ==
    ASSUME Pure, Pure', NEW ns, content = Bag(ns, {}), UNCHANGED content, popped' = None
    PROVE  Abstract!Pop
<1>1. \A v \in Items : ~(content[v] > 0)
  BY FS_EmptySet, BagHolds
<1>2. Abstract!Held = {}
  BY <1>1 DEF Abstract!Held
<1> QED BY <1>2 DEF Abstract!Pop

LEMMA AbstractClear ==
    ASSUME Pure, Pure', NEW ns, content' = Bag(ns, {}), popped' = popped
    PROVE  Abstract!Clear
<1>1. \A v : Cardinality({n \in {} : ns[n].item = v}) = 0
  BY FS_EmptySet
<1>2. content' = [v \in Items |-> 0]
  BY <1>1 DEF Bag
<1> QED BY <1>2 DEF Abstract!Clear

(* A step that keeps the same nodes keeps the content.                     *)
LEMMA ContentStays ==
    ASSUME CalmInv, CalmInv', Pure, Pure', ItemsStay,
           Kept(frames', Reached') = Kept(frames, Reached)
    PROVE  content' = content
<1> DEFINE K == Kept(frames, Reached)
<1>1. content = Bag(nodes, K) /\ K \subseteq 1 .. Len(nodes)
  BY ContentIs DEF ContentRight
<1>2. ContentRight'
  BY ContentIs, PTL
<1>3. content' = Bag(nodes', Kept(frames', Reached'))
  BY <1>2 DEF ContentRight
<1> HIDE DEF K
<1>4. \A n \in K : nodes'[n].item = nodes[n].item
  BY <1>1 DEF ItemsStay
<1>5. Bag(nodes', K) = Bag(nodes, K)
  BY <1>4, BagSame
<1> QED BY <1>1, <1>3, <1>5 DEF K

LEMMA KeptOne ==
    ASSUME NEW f, NEW L
    PROVE  Kept(<<f>>, L) = IF f.at = "tie" THEN L \ {f.x} ELSE L \cup {f.z}
  BY DEF Kept

LEMMA KeptNone == \A L : Kept(<<>>, L) = L
  BY DEF Kept

LEMMA ConsolidateStays ==
    ASSUME CalmInv, CalmInv', Pure, Pure', frames # <<>>, Top.at # "tie",
           NEW g, frames' = Resume(g), g.z = Top.z, g.at # "tie",
           Reached' = Reached, ItemsStay
    PROVE  content' = content
<1>1. Len(frames) = 1 /\ frames[1] = Top /\ frames' = <<g>>
  BY OnTop
<1>2. Kept(frames', Reached') = Reached \cup {Top.z}
  BY <1>1, KeptOne
<1>3. Kept(frames, Reached) = Reached \cup {Top.z}
  BY <1>1 DEF Kept
<1> QED BY <1>2, <1>3, ContentStays

LEMMA NextRootContent ==
    ASSUME CalmInv, CalmInv', Pure, Pure', NextRoot
    PROVE  content' = content
<1> DEFINE f == Top
           g == IF f.todo # <<>>
                THEN [f EXCEPT !.at = "bucket", !.todo = Tail(@), !.x = Head(f.todo),
                               !.degree = nodes[Head(f.todo)].degree]
                ELSE [f EXCEPT !.at = "look", !.degree = 0]
<1>1. frames # <<>> /\ f.at = "next" /\ nodes' = nodes /\ root' = root /\ frames' = Resume(g)
  BY DEF NextRoot, Running, trees
<1>2. f \in PopFrame
  BY <1>1, OnTop
<1> HIDE DEF f
<1>3. g.z = f.z /\ g.at # "tie"
  BY <1>2 DEF PopFrame
<1> HIDE DEF g
<1>4. Reached' = Reached /\ ItemsStay
  BY <1>1, StillForest DEF ItemsStay
<1> QED BY <1>1, <1>3, <1>4, ConsolidateStays DEF f

LEMMA BucketContent ==
    ASSUME CalmInv, CalmInv', Pure, Pure', Bucket
    PROVE  content' = content
<1> DEFINE f == Top
           g == IF At(f.table, f.degree) # Null
                THEN [f EXCEPT !.at = "link", !.b = At(f.table, f.degree)]
                ELSE [f EXCEPT !.at = "next", !.table = Put(@, f.degree, f.x)]
<1>1. frames # <<>> /\ f.at = "bucket" /\ nodes' = nodes /\ root' = root /\ frames' = Resume(g)
  BY DEF Bucket, Running, trees
<1>2. f \in PopFrame
  BY <1>1, OnTop
<1> HIDE DEF f
<1>3. g.z = f.z /\ g.at # "tie"
  BY <1>2 DEF PopFrame
<1> HIDE DEF g
<1>4. Reached' = Reached /\ ItemsStay
  BY <1>1, StillForest DEF ItemsStay
<1> QED BY <1>1, <1>3, <1>4, ConsolidateStays DEF f

LEMMA AnswerLinkContent ==
    ASSUME CalmInv, CalmInv', Pure, Pure', AnswerLink
    PROVE  content' = content
<1> DEFINE f == Top
           swap == nodes[f.x].item > nodes[f.b].item
           upper == IF swap THEN f.b ELSE f.x
           g == [f EXCEPT !.at = "bucket", !.x = upper, !.table = Put(@, f.degree, Null),
                          !.degree = @ + 1]
<1>1. frames # <<>> /\ f.at = "link" /\ frames' = Resume(g)
  BY DEF AnswerLink, Running
<1>2. f \in PopFrame
  BY <1>1, OnTop
<1> HIDE DEF f
<1>3. g.z = f.z /\ g.at # "tie"
  BY <1>2 DEF PopFrame
<1> HIDE DEF g
<1>4. Reached' = Reached /\ ItemsStay
  BY AnswerLinkStep
<1> QED BY <1>1, <1>3, <1>4, ConsolidateStays DEF f

LEMMA LookContent ==
    ASSUME CalmInv, CalmInv', Pure, Pure', Look
    PROVE  content' = content
<1> DEFINE f == Top
           c == At(f.table, f.degree)
           g == IF c # Null /\ min # Null THEN [f EXCEPT !.at = "scan", !.x = c, !.b = min]
                ELSE [f EXCEPT !.degree = @ + 1]
<1>1. frames # <<>> /\ f.at = "look" /\ nodes' = nodes /\ root' = root /\ frames' = Resume(g)
  BY DEF Look, Running, trees
<1>2. f \in PopFrame
  BY <1>1, OnTop
<1> HIDE DEF f, c
<1>3. g.z = f.z /\ g.at # "tie"
  BY <1>1, <1>2 DEF PopFrame
<1> HIDE DEF g
<1>4. Reached' = Reached /\ ItemsStay
  BY <1>1, StillForest DEF ItemsStay
<1> QED BY <1>1, <1>3, <1>4, ConsolidateStays DEF f

LEMMA AnswerScanContent ==
    ASSUME CalmInv, CalmInv', Pure, Pure', AnswerScan
    PROVE  content' = content
<1> DEFINE f == Top
           g == [f EXCEPT !.at = "look", !.degree = @ + 1]
<1>1. frames # <<>> /\ f.at = "scan" /\ nodes' = nodes /\ root' = root /\ frames' = Resume(g)
  BY DEF AnswerScan, Running, trees
<1>2. f \in PopFrame
  BY <1>1, OnTop
<1> HIDE DEF f
<1>3. g.z = f.z /\ g.at # "tie"
  BY <1>2 DEF PopFrame
<1> HIDE DEF g
<1>4. Reached' = Reached /\ ItemsStay
  BY <1>1, StillForest DEF ItemsStay
<1> QED BY <1>1, <1>3, <1>4, ConsolidateStays DEF f

(* A pure comparator calls nothing, so calls begin when nothing runs.      *)
LEMMA PureCalls ==
    ASSUME Pure, NEW op, MayCall(op)
    PROVE  Idle
  BY DEF Pure, MayCall, Idle

LEMMA PushContent ==
    ASSUME Calm, CalmInv, CalmInv', Pure, Pure', NEW v \in Items, Push(v)
    PROVE  Abstract!Push(v) \/ (content' = content /\ popped' = popped)
<1> DEFINE n == Len(nodes) + 1
           L == Reached
<1>1. frames = <<>> /\ popped' = popped
  BY PureCalls DEF Push, Idle
<1>2. Entered(v, n)
  BY PushStep
<1>3. /\ min = Null => frames' = frames
      /\ min # Null => frames' = Append(frames, [at |-> "tie", x |-> n, b |-> min])
  BY DEF Push
<1>4. content = Bag(nodes, L) /\ L \subseteq 1 .. Len(nodes) /\ IsFiniteSet(L)
  BY <1>1, ContentIs, KeptNone DEF ContentRight
<1> HIDE DEF n, L
<1>5. ItemsStay /\ n \notin L /\ nodes'[n].item = v /\ Reached' = L \cup {n}
  BY <1>2 DEF Entered, L
<1>6. CASE min # Null
  <2> DEFINE f == [at |-> "tie", x |-> n, b |-> min]
  <2>1. frames' = <<f>>
    BY <1>1, <1>3, <1>6
  <2>2. Kept(frames', Reached') = L
    <3>1. f.at = "tie" /\ f.x = n
      OBVIOUS
    <3> HIDE DEF f
    <3>2. Kept(<<f>>, Reached') = Reached' \ {f.x}
      BY <3>1, KeptOne
    <3> QED BY <1>5, <2>1, <3>1, <3>2
  <2>3. Kept(frames, Reached) = L
    BY <1>1, KeptNone DEF L
  <2> QED BY <1>1, <1>5, <2>2, <2>3, ContentStays
<1>7. CASE min = Null
  <2>1. Kept(frames', Reached') = L \cup {n}
    BY <1>1, <1>3, <1>5, <1>7, KeptNone
  <2>2. content' = Bag(nodes', L \cup {n})
    <3>1. ContentRight'
      BY ContentIs, PTL
    <3> QED BY <2>1, <3>1 DEF ContentRight
  <2>3. Bag(nodes', L) = content
    <3>1. \A m \in L : nodes'[m].item = nodes[m].item
      BY <1>4, <1>5 DEF ItemsStay
    <3> QED BY <1>4, <3>1, BagSame
  <2>4. Bag(nodes', L \cup {n}) = [Bag(nodes', L) EXCEPT ![v] = @ + 1]
    <3> DEFINE ns == nodes'
    <3>1. ns[n].item = v /\ ns[n].item \in Items /\ n \notin L /\ IsFiniteSet(L)
      BY <1>4, <1>5
    <3> HIDE DEF ns
    <3>2. OneMore(Bag(ns, L), Bag(ns, L \cup {n}), ns[n].item)
      BY <3>1, BagAdds
    <3> QED BY <3>1, <3>2 DEF ns, OneMore
  <2> QED BY <1>1, <2>2, <2>3, <2>4, AbstractPush
<1> QED BY <1>6, <1>7

LEMMA AnswerTieContent ==
    ASSUME CalmInv, CalmInv', Pure, Pure', AnswerTie
    PROVE  \E v \in Items : Abstract!Push(v)
<1> DEFINE x == Top.x
           L == Reached
           v == nodes[x].item
<1>1. /\ frames # <<>> /\ Top.at = "tie" /\ nodes' = nodes /\ root' = root /\ popped' = popped
      /\ frames' = SubSeq(frames, 1, Len(frames) - 1)
  BY DEF AnswerTie, Running, Return, trees
<1>2. /\ nodes \in Arena /\ FramesFit(frames, nodes, L) /\ Tops(nodes, L) \subseteq L
      /\ L \subseteq 1 .. Len(nodes) /\ IsFiniteSet(L)
  BY CalmFacts
<1>3. frames \in Seq(TieFrame \cup PopFrame)
  BY <1>2 DEF FramesFit
<1>4. Len(frames) = 1 /\ Top = frames[1]
  <2>1. Len(frames) <= 1 /\ Len(frames) \in Nat \ {0}
    BY <1>1, <1>3, FrontFacts DEF CalmInv, PureFits
  <2> QED BY <2>1, JustOne DEF Top
<1>5. frames' = <<>>
  <2>1. /\ SubSeq(frames, 1, Len(frames) - 1) \in Seq(TieFrame \cup PopFrame)
        /\ Len(SubSeq(frames, 1, Len(frames) - 1)) = Len(frames) - 1
    BY <1>1, <1>3, FrontFacts
  <2> QED BY <1>1, <1>4, <2>1, EmptySeq
<1>6. x \in L
  <2>1. 1 \in 1 .. Len(frames)
    BY <1>4
  <2>2. frames[1].x \in Tops(nodes, L)
    BY <1>1, <1>2, <1>4, <2>1 DEF FramesFit
  <2> QED BY <1>2, <1>4, <2>2
<1>7. v \in Items
  BY <1>2, <1>6, ArenaFunction DEF NodeRec
<1>8. Reached' = L
  BY <1>1, StillForest
<1> DEFINE H == L \ {x}
<1>9. Kept(frames, Reached) = H /\ Kept(frames', Reached') = H \cup {x} /\ x \notin H
  BY <1>1, <1>4, <1>5, <1>6, <1>8, KeptNone DEF Kept
<1>10. content = Bag(nodes, H) /\ IsFiniteSet(H)
  BY <1>9, ContentIs DEF ContentRight
<1>11. content' = Bag(nodes, H \cup {x})
  <2>1. ContentRight'
    BY ContentIs, PTL
  <2> QED BY <1>1, <1>9, <2>1 DEF ContentRight
<1> HIDE DEF H, x, L
<1>12. content' = [content EXCEPT ![v] = @ + 1]
  <2>1. OneMore(Bag(nodes, H), Bag(nodes, H \cup {x}), v)
    BY <1>7, <1>9, <1>10, BagAdds
  <2> QED BY <1>10, <1>11, <2>1 DEF OneMore
<1> HIDE DEF v
<1>13. Abstract!Push(v)
  BY <1>1, <1>7, <1>12, AbstractPush
<1> QED BY <1>7, <1>13

LEMMA ClearContent ==
    ASSUME Calm, CalmInv, CalmInv', Pure, Pure', Clear
    PROVE  Abstract!Clear
<1>1. frames = <<>> /\ frames' = frames /\ nodes' = nodes /\ root' = Null /\ popped' = popped
  BY PureCalls DEF Clear, Idle
<1>2. nodes' \in Arena /\ Forest(nodes', root', {})
  BY <1>1, CalmFacts, ForestNone
<1>3. Reached' = {}
  BY <1>2, ReachedNext
<1>4. Kept(frames', Reached') = {}
  BY <1>1, <1>3, KeptNone
<1>5. ContentRight'
  BY ContentIs, PTL
<1>6. content' = Bag(nodes', {})
  BY <1>4, <1>5 DEF ContentRight
<1> QED BY <1>1, <1>6, AbstractClear

LEMMA PopEmptyContent ==
    ASSUME Inv, CalmInv, CalmInv', Pure, Pure', PopEmpty
    PROVE  Abstract!Pop
<1>1. /\ Idle /\ size = 0 /\ popped' = None /\ nodes' = nodes /\ root' = root
      /\ frames' = frames
  BY PureCalls DEF PopEmpty, trees
<1>2. Cardinality(Reached) = 0 /\ IsFiniteSet(Reached)
  <2>1. Cardinality(Reached) <= size + Len(throws) /\ throws = <<>>
    BY <1>1, IdleCounts, PureCalm
  <2>2. Cardinality(Reached) \in Nat /\ IsFiniteSet(Reached)
    BY CalmFacts
  <2>3. Len(throws) = 0
    BY <2>1
  <2> QED BY <1>1, <2>1, <2>2, <2>3
<1>3. Reached = {}
  BY <1>2, FS_EmptySet
<1>4. Reached' = Reached /\ ItemsStay
  BY <1>1, StillForest DEF ItemsStay
<1>5. Kept(frames', Reached') = Kept(frames, Reached) /\ Kept(frames, Reached) = {}
  BY <1>1, <1>3, <1>4, KeptNone DEF Idle
<1>6. content = Bag(nodes, {})
  BY <1>5, ContentIs DEF ContentRight
<1>7. content' = content
  BY <1>4, <1>5, ContentStays
<1> QED BY <1>1, <1>6, <1>7, AbstractPopEmpty

(* A step that takes a least node out of the content and returns its item. *)
LEMMA TakeLeast ==
    ASSUME CalmInv, CalmInv', Pure, Pure', ItemsStay, nodes \in Arena,
           NEW z \in 1 .. Len(nodes), NEW H, z \notin H,
           Kept(frames, Reached) = H \cup {z}, Kept(frames', Reached') = H,
           \A n \in H : nodes[z].item <= nodes[n].item,
           popped' = nodes[z].item
    PROVE  Abstract!Pop
<1> DEFINE K == H \cup {z}
<1>1. content = Bag(nodes, K) /\ IsFiniteSet(K) /\ K \subseteq 1 .. Len(nodes)
  BY ContentIs DEF ContentRight
<1>2. content' = Bag(nodes', H)
  <2>1. ContentRight'
    BY ContentIs, PTL
  <2> QED BY <2>1 DEF ContentRight
<1>3. Bag(nodes', H) = Bag(nodes, H)
  <2>1. \A n \in H : nodes'[n].item = nodes[n].item
    BY <1>1 DEF ItemsStay
  <2> QED BY <2>1, BagSame
<1>4. nodes[z].item \in Items /\ nodes[z].item \in Int
  BY ArenaFunction, BoundsAssumption DEF NodeRec
<1>5. IsFiniteSet(H)
  <2>1. H \in SUBSET K
    OBVIOUS
  <2> QED BY <1>1, <2>1, FS_Subset
<1>6. content' = [content EXCEPT ![nodes[z].item] = @ - 1]
  <2>1. OneMore(Bag(nodes, H), Bag(nodes, H \cup {z}), nodes[z].item)
    BY <1>4, <1>5, BagAdds
  <2> QED BY <1>1, <1>2, <1>3, <2>1 DEF OneMore
<1>7. \A n \in K : nodes[z].item <= nodes[n].item
  BY <1>4
<1>8. z \in K
  OBVIOUS
<1> HIDE DEF K
<1> QED BY <1>1, <1>4, <1>6, <1>7, <1>8, AbstractPop

LEMMA PopContent ==
    ASSUME Calm, CalmInv, CalmInv', Pure, Pure', Pop
    PROVE  Abstract!Pop \/ (content' = content /\ popped' = popped)
<1> DEFINE z == min
           L == Reached
           H == L \ {z}
<1>1. Idle
  BY PureCalls DEF Pop
<1>2. TakenOut(z)
  BY PopStep
<1>3. \A n \in L : nodes[z].item <= nodes[n].item
  BY <1>1, PureIdle
<1>4. nodes \in Arena /\ L \subseteq 1 .. Len(nodes)
  BY CalmFacts
<1>5. Kept(frames, Reached) = L
  BY <1>1, KeptNone DEF Idle
<1> HIDE DEF z, L
<1>6. /\ z \in L /\ Reached' = H /\ ItemsStay
      /\ \/ frames' = <<>> /\ popped' = nodes[z].item
         \/ popped' = popped /\ \E f \in PopFrame : frames' = <<f>> /\ f.z = z
  BY <1>2 DEF TakenOut, L
<1>7. CASE frames' = <<>> /\ popped' = nodes[z].item
  <2>1. Kept(frames', Reached') = H /\ L = H \cup {z} /\ z \notin H
    BY <1>6, <1>7, KeptNone
  <2>2. z \in 1 .. Len(nodes) /\ \A n \in H : nodes[z].item <= nodes[n].item
    BY <1>3, <1>4, <1>6
  <2> HIDE DEF H
  <2> QED BY <1>4, <1>5, <1>6, <1>7, <2>1, <2>2, TakeLeast
<1>8. ASSUME popped' = popped, NEW f \in PopFrame, frames' = <<f>>, f.z = z
      PROVE  content' = content
  <2>1. f.at # "tie"
    BY DEF PopFrame
  <2>2. Kept(frames', Reached') = H \cup {z}
    BY <1>6, <1>8, <2>1, KeptOne
  <2>3. H \cup {z} = L
    BY <1>6
  <2> QED BY <1>5, <1>6, <2>2, <2>3, ContentStays
<1> QED BY <1>6, <1>7, <1>8

LEMMA FinishContent ==
    ASSUME Calm, CalmInv, CalmInv', Pure, Pure', Finish
    PROVE  Abstract!Pop
<1> DEFINE z == Top.z
           L == Reached
<1>1. /\ frames # <<>> /\ Top.at = "look" /\ nodes' = nodes /\ root' = root
      /\ popped' = nodes[z].item /\ frames' = SubSeq(frames, 1, Len(frames) - 1)
  BY DEF Finish, Running, Return, trees
<1>2. /\ Len(frames) = 1 /\ frames[1] = Top /\ PopFits(Top, nodes, L)
      /\ PurePops(Top, min, nodes, L)
  BY <1>1, OnTop
<1>3. nodes \in Arena /\ FramesFit(frames, nodes, L)
  BY CalmFacts
<1>4. frames' = <<>>
  <2>1. frames \in Seq(TieFrame \cup PopFrame)
    BY <1>3 DEF FramesFit
  <2>2. /\ SubSeq(frames, 1, Len(frames) - 1) \in Seq(TieFrame \cup PopFrame)
        /\ Len(SubSeq(frames, 1, Len(frames) - 1)) = Len(frames) - 1
    BY <1>1, <2>1, FrontFacts
  <2> QED BY <1>1, <1>2, <2>2, EmptySeq
<1>5. z \in 1 .. Len(nodes) /\ z \notin L /\ \A n \in L : nodes[z].item <= nodes[n].item
  BY <1>2 DEF PopFits, PurePops
<1>6. Reached' = L /\ ItemsStay
  BY <1>1, StillForest DEF ItemsStay
<1>7. Kept(frames, Reached) = L \cup {z} /\ Kept(frames', Reached') = L
  BY <1>1, <1>2, <1>4, <1>6, KeptNone DEF Kept
<1> HIDE DEF z, L
<1> QED BY <1>1, <1>3, <1>5, <1>6, <1>7, TakeLeast

LEMMA PureIsCalm == Inv /\ Pure => CalmInv
  BY PureCalm

LEMMA PureStep ==
    ASSUME Inv, Inv', [Next]_vars, Pure
    PROVE  [Abstract!Next]_<<content, IF Pure THEN popped ELSE None>>
<1>1. Calm /\ CalmInv /\ ~Throw
  BY PureCalm
<1>2. comparator' = comparator
  BY DEF Next, Push, AnswerTie, Clear, PopEmpty, PopNothing, Pop, NextRoot, Bucket, AnswerLink,
         Look, AnswerScan, Finish, Fail, Throw, vars, history
<1>3. Pure'
  BY <1>2 DEF Pure
<1>4. CalmInv'
  <2>1. (Inv /\ Pure => CalmInv)'
    BY PureIsCalm, PTL
  <2> QED BY <1>3, <2>1
<1> SUFFICES Abstract!Next \/ (content' = content /\ popped' = popped)
  BY <1>3
<1>5. ASSUME NEW v \in Items, Push(v)
      PROVE  Abstract!Next \/ (content' = content /\ popped' = popped)
  BY <1>1, <1>3, <1>4, <1>5, PushContent DEF Abstract!Next
<1>6. CASE AnswerTie
  BY <1>1, <1>3, <1>4, <1>6, AnswerTieContent DEF Abstract!Next
<1>7. CASE Clear
  BY <1>1, <1>3, <1>4, <1>7, ClearContent DEF Abstract!Next
<1>8. CASE PopEmpty
  BY <1>1, <1>3, <1>4, <1>8, PopEmptyContent DEF Abstract!Next
<1>9. CASE Pop
  BY <1>1, <1>3, <1>4, <1>9, PopContent DEF Abstract!Next
<1>10. CASE Finish
  BY <1>1, <1>3, <1>4, <1>10, FinishContent DEF Abstract!Next
<1>11. CASE NextRoot
  BY <1>1, <1>3, <1>4, <1>11, NextRootContent DEF NextRoot
<1>12. CASE Bucket
  BY <1>1, <1>3, <1>4, <1>12, BucketContent DEF Bucket
<1>13. CASE AnswerLink
  BY <1>1, <1>3, <1>4, <1>13, AnswerLinkContent DEF AnswerLink
<1>14. CASE Look
  BY <1>1, <1>3, <1>4, <1>14, LookContent DEF Look
<1>15. CASE AnswerScan
  BY <1>1, <1>3, <1>4, <1>15, AnswerScanContent DEF AnswerScan
<1>16. CASE PopNothing
  BY <1>1, <1>16, PopNothingStep
<1>17. CASE UNCHANGED vars
  <2>1. frames' = frames /\ nodes' = nodes /\ root' = root /\ popped' = popped
    BY <1>17 DEF vars
  <2>2. Reached' = Reached /\ ItemsStay
    BY <1>1, <2>1, StillForest DEF ItemsStay
  <2>3. Kept(frames', Reached') = Kept(frames, Reached)
    BY <2>1, <2>2
  <2> QED BY <1>1, <1>3, <1>4, <2>1, <2>2, <2>3, ContentStays
<1> QED BY <1>1, <1>5, <1>6, <1>7, <1>8, <1>9, <1>10, <1>11, <1>12, <1>13, <1>14, <1>15, <1>16,
           <1>17 DEF Next

(* Without a pure comparator the mapping shows an empty queue throughout.  *)
LEMMA ImpureStep ==
    ASSUME [Next]_vars, ~Pure
    PROVE  UNCHANGED <<content, IF Pure THEN popped ELSE None>>
<1>1. comparator' = comparator
  BY DEF Next, Push, AnswerTie, Clear, PopEmpty, PopNothing, Pop, NextRoot, Bucket, AnswerLink,
         Look, AnswerScan, Finish, Fail, Throw, vars, history
<1>2. ~Pure'
  BY <1>1 DEF Pure
<1>3. \A v : {n \in {} : nodes[n].item = v} = {} /\ {n \in {} : nodes'[n].item = v} = {}
  OBVIOUS
<1>4. content = [v \in Items |-> Cardinality({})]
  BY <1>3 DEF content
<1>5. content' = [v \in Items |-> Cardinality({})]
  BY <1>2, <1>3 DEF content
<1> QED BY <1>2, <1>4, <1>5

LEMMA InitAbstract ==
    ASSUME Init
    PROVE  Abstract!Init
<1>1. Inv /\ CalmInv /\ popped = None
  BY InitInv, InitCalm DEF Init
<1>2. content \in [Items -> Nat]
  <2>1. CASE Pure
    <3>1. content = Bag(nodes, Kept(frames, Reached)) /\ IsFiniteSet(Kept(frames, Reached))
      BY <1>1, <2>1, ContentIs DEF ContentRight
    <3> QED BY <3>1, BagNat
  <2>2. CASE ~Pure
    <3>1. \A v : {n \in {} : nodes[n].item = v} = {}
      OBVIOUS
    <3>2. content = [v \in Items |-> Cardinality({})]
      BY <2>2, <3>1 DEF content
    <3> QED BY <3>2, FS_EmptySet
  <2> QED BY <2>1, <2>2
<1> QED BY <1>1, <1>2 DEF Abstract!Init

(* With a comparator that only answers structures/fibonacci_heap.rs is a    *)
(* priority queue, for any items and any length: a push puts its item in,   *)
(* a pop takes a least one out, and consolidating loses or doubles none.    *)
THEOREM QueueImplemented == Spec => ImplementsPriorityQueue
<1>1. Init => Abstract!Init
  BY InitAbstract
<1>2. Inv /\ Inv' /\ [Next]_vars
        => [Abstract!Next]_<<content, IF Pure THEN popped ELSE None>>
  BY PureStep, ImpureStep
<1> QED BY <1>1, <1>2, InvHolds, PTL DEF Spec, ImplementsPriorityQueue, Abstract!Spec

=============================================================================
